---- MODULE Spec2Model ----
(***************************************************************************)
(* Model of archivematicaCommon/lib/elasticSearchFunctions.py: the         *)
(* resilient writer (_wait_for_cluster_yellow_status, _try_to_index), the  *)
(* schema normalizer, the index bootstrap (create_indexes_if_needed), the  *)
(* builders (index_aip_and_files, index_transfer_and_files) and the        *)
(* query/mutation layer over the search store.                             *)
(*                                                                         *)
(* The search store is the external collaborator: it is modelled by the    *)
(* calls the module makes on it (health, index, search, update, delete,    *)
(* delete_by_query).  Whether a call of the store succeeds is an input of  *)
(* the operation (the store may be transiently unavailable).  Every        *)
(* operation of the query/mutation layer is one action; it records in      *)
(* `last` what it was called with, the calls it made on the store and on   *)
(* time.sleep, in order, and how it ended (returned a value or raised an   *)
(* exception).  A call of a builder is a run of several steps (the         *)
(* precondition, the listing of the directory or the parsing of the        *)
(* manifest, one step for every entry of its loop, one health gate and     *)
(* one write for every document); the other callers act between them.      *)
(***************************************************************************)
EXTENDS Integers, Sequences, FiniteSets, TLC

VARIABLES
    store,      \* the documents of the search store, by document id
    last,       \* the last operation: name, arguments, calls made, result
    nin,        \* normalizer: the raw tree given to normalize
    nalt,       \* normalizer: the second raw tree of a pair of records
    nout,       \* normalizer: the output for nin
    nout2,      \* normalizer: the output for nalt (or of the second
                \* application, when twice)
    nmode,      \* normalizer: which experiment produced nout and nout2
    filepaths,  \* the list object that is the default of the parameter
                \* `filepaths` of _list_files_in_dir, shared by its calls
    indices,    \* the mapping of each index of the store, or None
    runs        \* the calls of the builders (index_transfer_and_files,
                \* index_aip_and_files): where each is, its local
                \* variables and what it has written

vars ==
    <<store, last, nin, nalt, nout, nout2, nmode, filepaths, indices, runs>>

-----------------------------------------------------------------------------
(* Bounds of the exploration.                                              *)

\* largest max_tries an operation is called with (the code's default is 10)
MaxTries == 3

\* longest list of a raw tree given to the normalizer
MaxLen == 2

\* longest list of paths _list_files_in_dir is let to build up
MaxPaths == 4

\* largest number of file entries of a METS file
MaxFiles == 2

-----------------------------------------------------------------------------
(* Values shared by the operations.                                        *)

\* Python's None, where a value of the model may be None
None == "None"

\* how an operation ends
Returned(v) == [kind |-> "returned", value |-> v, exc |-> None, attempt |-> 0]
Raised(e, n) == [kind |-> "raised", value |-> None, exc |-> e, attempt |-> n]

\* entries of the call trace of an operation
HealthCall == [call |-> "health"]
SleepCall == [call |-> "sleep"]
IndexCall(index, doc_type) ==
    [call |-> "index", index |-> index, doc_type |-> doc_type]
SearchCall(index, doc_type, field, value) ==
    [call |-> "search", index |-> index, doc_type |-> doc_type,
     field |-> field, value |-> value]
UpdateCall(index, doc_type, id) ==
    [call |-> "update", index |-> index, doc_type |-> doc_type, id |-> id]
DeleteCall(index, doc_type, id) ==
    [call |-> "delete", index |-> index, doc_type |-> doc_type, id |-> id]
DeleteByQueryCall(index, field, value) ==
    [call |-> "delete_by_query", index |-> index,
     field |-> field, value |-> value]
\* logger.error(error_message); printfn(error_message, file=sys.stderr)
ReportCall == [call |-> "report"]

\* the calls that change the documents of the store
MutationCalls == {"index", "update", "delete", "delete_by_query"}

-----------------------------------------------------------------------------
(* The search store.                                                       *)

\* DOC_TYPE: the one document type of the indexes this module creates
DOC_TYPE == "_doc"

\* INDICES: the four logical indexes
INDICES == {"aips", "aipfiles", "transfers", "transferfiles"}

\* MAX_QUERY_SIZE: the size search_all_results asks for
MAX_QUERY_SIZE == 50000

\* the number of hits client.search returns when no size is given
DefaultSearchSize == 10

\* Identifiers are strings, modelled as sequences of characters so that
\* the escaping done by the lookups is computed, not assumed.
IdA == <<"a", "1">>
IdB == <<"b", "2">>
IdP == <<"p", "/", "q">>
Identifiers == {IdA, IdB, IdP}

\* an identifier of the shape the callers pass (a UUID has no slash)
IsUUID(v) == \A i \in 1..Len(v) : v[i] # "/"

\* the document ids the store assigns to the documents of a store that
\* holds documents of the addressed layout from the start
DocIds == {1, 2}

\* the document ids the store assigns to the documents of a store that is
\* empty at the start
BuildDocIds == {1, 2, 3}

\* an empty slot of the store
NoDoc == [index |-> None, doc_type |-> None, source |-> <<>>]

Present(st, id) == st[id].index # None

EmptyStore == [id \in DocIds |-> NoDoc]

FreeIds(st) == {id \in DOMAIN st : ~Present(st, id)}

Min(a, b) == IF a < b THEN a ELSE b

Max(a, b) == IF a < b THEN b ELSE a

SetMin(S) == CHOOSE x \in S : \A y \in S : x <= y

\* client.index(body=data, index=index, doc_type=doc_type): the store
\* assigns an id of its own to the new document
StoreIndex(st, index, doc_type, data) ==
    [st EXCEPT ![SetMin(FreeIds(st))] =
        [index |-> index, doc_type |-> doc_type, source |-> data]]

\* the documents a term query {field: value} matches, among those of the
\* index (None: every index) and of the document type (None: every type)
TermMatches(st, index, doc_type, field, value) ==
    {id \in DOMAIN st :
        /\ Present(st, id)
        /\ (index = None \/ st[id].index = index)
        /\ (doc_type = None \/ st[id].doc_type = doc_type)
        /\ field \in DOMAIN st[id].source
        /\ st[id].source[field] = value}

\* the ids of a set, in the order the store returns its hits
RECURSIVE InStoreOrder(_)
InStoreOrder(S) ==
    IF S = {} THEN <<>>
    ELSE <<SetMin(S)>> \o InStoreOrder(S \ {SetMin(S)})

\* client.search(body={query: {term: {field: value}}}, size=size): the
\* total number of matches and the first `size` of them
StoreSearch(st, index, doc_type, field, value, size) ==
    LET found == InStoreOrder(TermMatches(st, index, doc_type, field, value))
    IN  [total |-> Len(found),
         hits |-> SubSeq(found, 1, Min(Len(found), size))]

\* a source or a partial document with no field
NoFields == [f \in {} |-> ""]

\* the fields a partial document changes, the others kept
MergeSource(source, patch) ==
    [f \in DOMAIN source \cup DOMAIN patch |->
        IF f \in DOMAIN patch THEN patch[f] ELSE source[f]]

\* whether the store holds the document index/doc_type/id
Addressable(st, index, doc_type, id) ==
    /\ Present(st, id)
    /\ st[id].index = index
    /\ st[id].doc_type = doc_type

\* client.update(body={doc: patch}, index, doc_type, id) on a document the
\* store holds
StoreUpdate(st, id, patch) ==
    [st EXCEPT ![id].source = MergeSource(st[id].source, patch)]

\* client.delete(index, doc_type, id) on a document the store holds
StoreDelete(st, id) == [st EXCEPT ![id] = NoDoc]

\* a slip: the first match only is deleted
StoreDeleteByQueryFirst(st, index, field, value) ==
    [id \in DOMAIN st |->
        IF /\ TermMatches(st, index, None, field, value) # {}
           /\ id = SetMin(TermMatches(st, index, None, field, value))
        THEN NoDoc ELSE st[id]]

\* client.delete_by_query(index, body={query: {term: {field: value}}})
StoreDeleteByQuery(st, index, field, value) ==
    [id \in DOMAIN st |->
        IF id \in TermMatches(st, index, None, field, value)
        THEN NoDoc ELSE st[id]]

-----------------------------------------------------------------------------
(* Resilient writer.                                                       *)

\* max_tries=10: the default of _wait_for_cluster_yellow_status and of
\* _try_to_index, which the builders rely on
DefaultMaxTries == 10

HealthOutcomes == {"green", "yellow", "red", "throw"}

WriteOutcomes == {"ok", "fail"}

\* a slip: only green counts as healthy
HealthyGreenOnly(status) == status = "green"

\* health['status'] is 'yellow' or 'green'
Healthy(status) == status = "yellow" \/ status = "green"

\* _wait_for_cluster_yellow_status: the while loop, from the state
\* (status, tries); outcomes[i] is what the i-th health check does
RECURSIVE WaitLoop(_, _, _, _, _)
WaitLoop(status, tries, max_tries, outcomes, calls) ==
    IF ~Healthy(status) /\ tries < max_tries
    THEN LET o == outcomes[tries + 1]
             status1 == IF o = "throw" THEN None ELSE o
             calls1 == Append(calls, HealthCall)
             calls2 == IF ~Healthy(status1)
                       THEN Append(calls1, SleepCall) ELSE calls1
         IN  WaitLoop(status1, tries + 1, max_tries, outcomes, calls2)
    ELSE [calls |-> calls, result |-> Returned(None)]

WaitForClusterYellowStatus(max_tries, outcomes) ==
    WaitLoop(None, 0, max_tries, outcomes, <<>>)

\* a slip: the first exception caught is kept
CaughtExceptionFirst(exception, attempt) ==
    IF exception = 0 THEN attempt ELSE exception

\* except Exception as e: exception = e; an exception is named by the
\* attempt that raised it (0: exception = None)
CaughtException(exception, attempt) == attempt

\* _try_to_index: the for loop, from iteration i (0-based) with the last
\* exception caught so far; outcomes[i] is what the i-th client.index does
RECURSIVE TryLoop(_, _, _, _, _, _, _, _)
TryLoop(st, data, index, max_tries, outcomes, i, exception, calls) ==
    IF i < max_tries
    THEN LET calls1 == Append(calls, IndexCall(index, DOC_TYPE))
         IN  IF outcomes[i + 1] = "ok"
             THEN [store |-> StoreIndex(st, index, DOC_TYPE, data),
                   calls |-> calls1, result |-> Returned(None)]
             ELSE TryLoop(st, data, index, max_tries, outcomes, i + 1,
                          CaughtException(exception, i + 1),
                          Append(calls1, SleepCall))
    ELSE [store |-> st, calls |-> calls,
          result |-> IF exception # 0
                     THEN Raised("TransportError", exception)
                     ELSE Returned(None)]

\* a slip: max_tries is not validated
TryToIndexUnchecked(st, data, index, max_tries, outcomes) ==
    TryLoop(st, data, index, max_tries, outcomes, 0, 0, <<>>)

TryToIndex(st, data, index, max_tries, outcomes) ==
    IF max_tries < 1
    THEN [store |-> st, calls |-> <<>>, result |-> Raised("ValueError", 0)]
    ELSE TryLoop(st, data, index, max_tries, outcomes, 0, 0, <<>>)

-----------------------------------------------------------------------------
(* Query/mutation layer.  `fault` is the position, among the store calls   *)
(* an operation makes, of the one call the store fails (0: none fails).    *)

\* document_id = None
NoDocumentId == 0

\* value.replace('/', '\\/')
RECURSIVE EscapeSlashes(_)
EscapeSlashes(value) ==
    IF value = <<>> THEN <<>>
    ELSE (IF Head(value) = "/" THEN <<"\\", "/">> ELSE <<Head(value)>>)
         \o EscapeSlashes(Tail(value))

\* ','.join(doc_type)
RECURSIVE JoinComma(_)
JoinComma(names) ==
    IF names = <<>> THEN ""
    ELSE IF Len(names) = 1 THEN names[1]
    ELSE names[1] \o "," \o JoinComma(Tail(names))

\* search_all_results(client, body, index, doc_type): doc_type is a list
\* of type names
SearchAllResults(st, index, doc_type, field, value) ==
    StoreSearch(st, index, JoinComma(doc_type), field, value, MAX_QUERY_SIZE)

\* the search _document_ids_from_field_query issues: the index it is given
\* is not passed on, so every index is searched
LookupCall(doc_types, field, value) ==
    SearchCall(None, JoinComma(doc_types), field, EscapeSlashes(value))

\* _document_ids_from_field_query
DocumentIdsFromFieldQuery(st, index, doc_types, field, value) ==
    LET searchvalue == EscapeSlashes(value)
        documents == SearchAllResults(st, None, doc_types, field, searchvalue)
    IN  documents.hits

\* a slip: the first of several ids is taken
DocumentIdFromFieldQueryFirst(st, index, doc_types, field, value) ==
    LET ids == DocumentIdsFromFieldQuery(st, index, doc_types, field, value)
    IN  IF Len(ids) >= 1 THEN ids[1] ELSE NoDocumentId

\* _document_id_from_field_query
DocumentIdFromFieldQuery(st, index, doc_types, field, value) ==
    LET ids == DocumentIdsFromFieldQuery(st, index, doc_types, field, value)
    IN  IF Len(ids) = 1 THEN ids[1] ELSE NoDocumentId

\* the 'fields' of a hit of a search with fields='tags': absent when the
\* document has no tag
HitHasFields(source) == "tags" \in DOMAIN source /\ source["tags"] # <<>>

\* get_file_tags
GetFileTags(st, uuid, fault) ==
    LET c1 == SearchCall("transfers", "transferfile", "fileuuid", uuid)
        results == StoreSearch(st, "transfers", "transferfile",
                               "fileuuid", uuid, DefaultSearchSize)
        count == results.total
    IN  IF fault = 1
        THEN [store |-> st, calls |-> <<c1>>,
              result |-> Raised("TransportError", 1)]
        ELSE IF count = 0
        THEN [store |-> st, calls |-> <<c1>>,
              result |-> Raised("EmptySearchResultError", 0)]
        ELSE IF count > 1
        THEN [store |-> st, calls |-> <<c1>>,
              result |-> Raised("TooManyResultsError", 0)]
        ELSE LET source == st[results.hits[1]].source
             IN  [store |-> st, calls |-> <<c1>>,
                  result |-> Returned(IF HitHasFields(source)
                                      THEN source["tags"] ELSE <<>>)]

\* client.update(...) as the second store call of an operation
\* The store as other callers of it leave it between two requests of an
\* operation: the search and the update or delete that follows it are
\* separate requests, and `gone` are the documents another caller's
\* deletion (client.delete, client.delete_by_query) removed in between.
DeletedByOthers(st, gone) ==
    [id \in DOMAIN st |-> IF id \in gone THEN NoDoc ELSE st[id]]

\* the requests of a trace: what it holds besides the log entries
StoreCalls(calls) ==
    LET request(c) == c.call \notin {"report", "warning"}
    IN  SelectSeq(calls, request)

\* the documents a trace addresses by their store identifier
Addressed(calls) ==
    {calls[i].id : i \in {j \in DOMAIN calls :
                             calls[j].call \in {"update", "delete"}}}

UpdateStep(st, index, doc_type, id, patch, fault, calls, value) ==
    LET calls1 == Append(calls, UpdateCall(index, doc_type, id))
    IN  IF fault = Len(calls1)
        THEN [store |-> st, calls |-> calls1,
              result |-> Raised("TransportError", Len(calls1))]
        ELSE IF ~Addressable(st, index, doc_type, id)
        THEN [store |-> st, calls |-> calls1,
              result |-> Raised("NotFoundError", Len(calls1))]
        ELSE [store |-> StoreUpdate(st, id, patch), calls |-> calls1,
              result |-> Returned(value)]

\* a slip: the tags are left out of the partial document
TagsDocWithoutTags(tags) == NoFields

\* doc = {'doc': {'tags': tags}}
TagsDoc(tags) == [tags |-> tags]

\* a slip: more than one match is not an error, the first is updated
SetFileTagsOfFirst(st, uuid, tags, fault, gone) ==
    LET c1 == LookupCall(<<"transferfile">>, "fileuuid", uuid)
        document_ids == DocumentIdsFromFieldQuery(
                            st, "transfers", <<"transferfile">>,
                            "fileuuid", uuid)
    IN  IF fault = 1
        THEN [store |-> st, calls |-> <<c1>>,
              result |-> Raised("TransportError", 1)]
        ELSE IF Len(document_ids) = 0
        THEN [store |-> st, calls |-> <<c1>>,
              result |-> Raised("EmptySearchResultError", 0)]
        ELSE UpdateStep(DeletedByOthers(st, gone), "transfers", "transferfile",
                        document_ids[1], TagsDoc(tags), fault, <<c1>>, TRUE)

\* set_file_tags; `gone` is what other callers deleted after the search
SetFileTags(st, uuid, tags, fault, gone) ==
    LET c1 == LookupCall(<<"transferfile">>, "fileuuid", uuid)
        document_ids == DocumentIdsFromFieldQuery(
                            st, "transfers", <<"transferfile">>,
                            "fileuuid", uuid)
        count == Len(document_ids)
    IN  IF fault = 1
        THEN [store |-> st, calls |-> <<c1>>,
              result |-> Raised("TransportError", 1)]
        ELSE IF count = 0
        THEN [store |-> st, calls |-> <<c1>>,
              result |-> Raised("EmptySearchResultError", 0)]
        ELSE IF count > 1
        THEN [store |-> st, calls |-> <<c1>>,
              result |-> Raised("TooManyResultsError", 0)]
        ELSE UpdateStep(DeletedByOthers(st, gone), "transfers", "transferfile",
                        document_ids[1], TagsDoc(tags), fault, <<c1>>, TRUE)

\* _update_field; `gone` is what other callers deleted after the lookup
UpdateField(st, uuid, index, doc_type, field, status, fault, gone) ==
    LET c1 == LookupCall(<<doc_type>>, "uuid", uuid)
        document_id == DocumentIdFromFieldQuery(st, index, <<doc_type>>,
                                                "uuid", uuid)
    IN  IF fault = 1
        THEN [store |-> st, calls |-> <<c1>>,
              result |-> Raised("TransportError", 1)]
        ELSE IF document_id = NoDocumentId
        THEN [store |-> st, calls |-> <<c1, ReportCall>>,
              result |-> Returned(None)]
        ELSE UpdateStep(DeletedByOthers(st, gone), index, doc_type,
                        document_id, [f \in {field} |-> status], fault,
                        <<c1>>, None)

\* mark_aip_deletion_requested
MarkAipDeletionRequested(st, uuid, fault, gone) ==
    UpdateField(st, uuid, "aips", "aip", "status", "DEL_REQ", fault, gone)

\* mark_aip_stored
MarkAipStored(st, uuid, fault, gone) ==
    UpdateField(st, uuid, "aips", "aip", "status", "UPLOADED", fault, gone)

\* mark_backlog_deletion_requested
MarkBacklogDeletionRequested(st, uuid, fault, gone) ==
    UpdateField(st, uuid, "transfers", "transfer", "pending_deletion",
                TRUE, fault, gone)

\* _delete_matching_documents
DeleteMatchingDocuments(st, index, field, value, fault) ==
    LET c1 == DeleteByQueryCall(index, field, value)
    IN  IF fault = 1
        THEN [store |-> st, calls |-> <<c1>>,
              result |-> Raised("TransportError", 1)]
        ELSE [store |-> StoreDeleteByQuery(st, index, field, value),
              calls |-> <<c1>>, result |-> Returned(None)]

\* remove_backlog_transfer
RemoveBacklogTransfer(st, uuid, fault) ==
    DeleteMatchingDocuments(st, "transfers", "uuid", uuid, fault)

\* delete_aip
DeleteAip(st, uuid, fault) ==
    DeleteMatchingDocuments(st, "aips", "uuid", uuid, fault)

\* delete_aip_files
DeleteAipFiles(st, uuid, fault) ==
    DeleteMatchingDocuments(st, "aipfiles", "AIPUUID", uuid, fault)

\* the orders in which a set can be iterated
Orderings(S) ==
    {o \in [1..Cardinality(S) -> S] : \A x \in S : \E i \in DOMAIN o : o[i] = x}

\* logger.warning
WarningCall == [call |-> "warning"]

\* The hits a term query on an analyzed field may return: the store ranks
\* every document of the index whose field holds the term, and it has
\* ranked documents holding another value of the field among them and
\* above them.  The rankings are every order of the exact matches and of
\* any of the other documents of the index that have the field.
RankedHits(st, index, field, value) ==
    LET exact == TermMatches(st, index, None, field, value)
        near == {id \in DOMAIN st :
                    /\ Present(st, id)
                    /\ st[id].index = index
                    /\ field \in DOMAIN st[id].source
                    /\ st[id].source[field] # value}
    IN  UNION {Orderings(exact \cup some) : some \in SUBSET near}

\* a slip: every hit is taken for an exact match
ExactHitsUnfiltered(st, hits, field, value) == hits

\* [results for results in hits if results['_source'][field] == value]
ExactHits(st, hits, field, value) ==
    LET keep(id) == st[id].source[field] = value
    IN  SelectSeq(hits, keep)

\* get_transfer_file_info; `hits` is what the store returns for the query
GetTransferFileInfo(st, field, value, hits, fault) ==
    LET c1 == SearchCall("transfers", None, field, value)
        filtered_results == ExactHits(st, hits, field, value)
    IN  IF fault = 1
        THEN [store |-> st, calls |-> <<c1>>,
              result |-> Raised("TransportError", 1)]
        ELSE IF Len(hits) = 1
        THEN [store |-> st, calls |-> <<c1>>,
              result |-> Returned(st[hits[1]].source)]
        ELSE IF Len(hits) > 1
        THEN IF Len(filtered_results) = 1
             THEN [store |-> st, calls |-> <<c1>>,
                   result |-> Returned(st[filtered_results[1]].source)]
             ELSE IF Len(filtered_results) > 1
             THEN [store |-> st, calls |-> <<c1, WarningCall>>,
                   result |-> Returned(st[filtered_results[1]].source)]
             ELSE [store |-> st, calls |-> <<c1, ReportCall>>,
                   result |-> Raised("ElasticsearchError", 0)]
        ELSE [store |-> st, calls |-> <<c1>>, result |-> Returned(NoFields)]

\* the rows of the relational File table
FileRows ==
    {[uuid |-> IdA, transfer_id |-> IdA, sip_id |-> IdB,
      currentlocation |-> <<"%transferDirectory%", "f">>],
     [uuid |-> IdB, transfer_id |-> IdB, sip_id |-> IdB,
      currentlocation |-> <<"%transferDirectory%", "g">>]}

\* the transfers _remove_transfer_files deletes the files of
TransfersOfUnit(uuid, unit_type) ==
    IF unit_type = "transfer" THEN {uuid}
    ELSE {f.transfer_id :
            f \in {r \in FileRows : r.transfer_id = uuid \/ r.sip_id = uuid}}

\* Every lookup and every delete of _remove_transfer_files is a request
\* of its own, and other callers of the store run between any two of them:
\* gone[k] are the documents another caller deleted after the k-th request
\* of the operation and before the next one.
GoneAfter(gone, k) == IF k \in DOMAIN gone THEN gone[k] ELSE {}

\* for f in files: client.delete('transfers', 'transferfile', f)
RECURSIVE DeleteEach(_, _, _, _, _)
DeleteEach(st, files, fault, calls, gone) ==
    IF files = <<>>
    THEN [store |-> st, calls |-> calls, result |-> Returned(None)]
    ELSE LET f == Head(files)
             found == DeletedByOthers(st, GoneAfter(gone, Len(calls)))
             calls1 == Append(calls, DeleteCall("transfers", "transferfile", f))
         IN  IF fault = Len(calls1)
             THEN [store |-> found, calls |-> calls1,
                   result |-> Raised("TransportError", Len(calls1))]
             ELSE IF ~Addressable(found, "transfers", "transferfile", f)
             THEN [store |-> found, calls |-> calls1,
                   result |-> Raised("NotFoundError", Len(calls1))]
             ELSE DeleteEach(StoreDelete(found, f), Tail(files), fault,
                             calls1, gone)

\* for transfer in transfers: look the files up, delete each
RECURSIVE RemoveEach(_, _, _, _, _)
RemoveEach(st, transfers, fault, calls, gone) ==
    IF transfers = <<>>
    THEN [store |-> st, calls |-> calls, result |-> Returned(None)]
    ELSE LET transfer == Head(transfers)
             searched == DeletedByOthers(st, GoneAfter(gone, Len(calls)))
             calls1 == Append(calls, LookupCall(<<"transferfile">>,
                                                "sipuuid", transfer))
             files == DocumentIdsFromFieldQuery(
                          searched, "transfers", <<"transferfile">>,
                          "sipuuid", transfer)
         IN  IF fault = Len(calls1)
             THEN [store |-> searched, calls |-> calls1,
                   result |-> Raised("TransportError", Len(calls1))]
             ELSE LET deleted == DeleteEach(searched, files, fault, calls1,
                                            gone)
                  IN  IF deleted.result.kind = "raised" THEN deleted
                      ELSE RemoveEach(deleted.store, Tail(transfers),
                                      fault, deleted.calls, gone)

\* _remove_transfer_files; `order` is the order in which the set of
\* transfers is iterated, `gone` what other callers deleted after each
\* request
RemoveTransferFiles(st, uuid, unit_type, order, fault, gone) ==
    LET transfers == TransfersOfUnit(uuid, unit_type)
    IN  IF Cardinality(transfers) > 0
        THEN RemoveEach(st, order, fault, <<>>, gone)
        ELSE [store |-> st, calls |-> <<WarningCall>>,
              result |-> Returned(None)]

\* the documents the lookups of _remove_transfer_files find in a store
Removable(st, order) ==
    {id \in DOMAIN st :
        \E k \in DOMAIN order :
            LET files == DocumentIdsFromFieldQuery(
                             st, "transfers", <<"transferfile">>,
                             "sipuuid", order[k])
            IN  \E i \in DOMAIN files : files[i] = id}

\* whether the request c of _remove_transfer_files is the delete of the
\* document d or the lookup that finds it
Targets(st, order, c, d) ==
    \/ c.call = "delete" /\ c.id = d
    \/ \E k \in DOMAIN order :
          /\ c = LookupCall(<<"transferfile">>, "sipuuid", order[k])
          /\ d \in Removable(st, <<order[k]>>)

\* What other callers may delete between the requests of an operation
\* that makes at most n of them: each of the documents is deleted after
\* one of the requests 1..n-1 or not at all.
Interferences(docs, n) ==
    {[k \in 1..(n - 1) |-> {d \in docs : gap[d] = k}] :
        gap \in [docs -> 0..(n - 1)]}

\* remove_backlog_transfer_files
RemoveBacklogTransferFiles(st, uuid, order, fault, gone) ==
    RemoveTransferFiles(st, uuid, "transfer", order, fault, gone)

\* remove_sip_transfer_files
RemoveSipTransferFiles(st, uuid, order, fault, gone) ==
    RemoveTransferFiles(st, uuid, "sip", order, fault, gone)

-----------------------------------------------------------------------------
(* Schema normalizer.  A node of a tree carries the name of its Python     *)
(* type: a dict is a function from keys to nodes, a list a sequence of     *)
(* nodes.  The operators give the value each function returns.  Two keys   *)
(* of one dict that are renamed to the same key do not occur in the trees  *)
(* of the model.                                                           *)

\* a node has the same fields whatever its type: the string of a scalar,
\* the items of a dict, the elements of a list
NoItems == [key \in {} |-> ""]
Str(s) == [t |-> "str", s |-> s, items |-> NoItems, elems |-> <<>>]
NoneValue == [t |-> "NoneType", s |-> None, items |-> NoItems, elems |-> <<>>]
List(elements) == [t |-> "list", s |-> "", items |-> NoItems, elems |-> elements]
Dict(items) == [t |-> "dict", s |-> "", items |-> items, elems |-> <<>>]

EmptyDict == Dict(NoItems)

\* isinstance(value, dict), isinstance(value, list)
IsDict(value) == value.t = "dict"
IsList(value) == value.t = "list"

\* type(value).__name__
TypeName(value) == value.t

\* a slip: the mapping is not encased in a list
WrapMappingNot(value) == value

\* [value]: a mapping-valued field is encased in a one-element list
WrapMapping(value) == List(<<value>>)

\* _normalize_dict_values, _normalize_list_dict_elements
RECURSIVE NormalizeDictValues(_), NormalizeListDictElements(_)
NormalizeDictValues(data) ==
    Dict([key \in DOMAIN data.items |->
            IF IsDict(data.items[key])
            THEN WrapMapping(NormalizeDictValues(data.items[key]))
            ELSE IF IsList(data.items[key])
            THEN NormalizeListDictElements(data.items[key])
            ELSE data.items[key]])

NormalizeListDictElements(data) ==
    List([index \in DOMAIN data.elems |->
            IF IsList(data.elems[index])
            THEN NormalizeListDictElements(data.elems[index])
            ELSE IF IsDict(data.elems[index])
            THEN NormalizeDictValues(data.elems[index])
            ELSE data.elems[index]])


\* key + '_' + type_of_list + '_list'
ListKey(key, type_of_list) == key \o "_" \o type_of_list \o "_list"

\* key + '_data'
DictKey(key) == key \o "_data"

\* the key _rename_dict_keys_with_child_dicts stores a value under;
\* a list is not empty here
RenamedKey(key, value) ==
    IF IsDict(value) THEN DictKey(key)
    ELSE IF IsList(value) THEN ListKey(key, TypeName(value.elems[1]))
    ELSE key

\* whether _rename_dict_keys_with_child_dicts (of a dict) and
\* _rename_list_elements_if_they_are_dicts (of a list) raise IndexError:
\* data[key][0] of an empty list
RECURSIVE RenameDictRaises(_), RenameListRaises(_)
RenameDictRaises(data) ==
    \E key \in DOMAIN data.items :
        \/ IsDict(data.items[key]) /\ RenameDictRaises(data.items[key])
        \/ IsList(data.items[key]) /\ (data.items[key].elems = <<>>
                                       \/ RenameListRaises(data.items[key]))

RenameListRaises(data) ==
    \E index \in DOMAIN data.elems :
        \/ IsList(data.elems[index]) /\ RenameListRaises(data.elems[index])
        \/ IsDict(data.elems[index]) /\ RenameDictRaises(data.elems[index])

\* _rename_dict_keys_with_child_dicts and
\* _rename_list_elements_if_they_are_dicts, when they do not raise
RECURSIVE RenameDictKeysWithChildDicts(_), RenameListElementsIfTheyAreDicts(_)
RenameDictKeysWithChildDicts(data) ==
    LET newkeys == {RenamedKey(key, data.items[key]) : key \in DOMAIN data.items}
        Source(newkey) == CHOOSE key \in DOMAIN data.items :
                              RenamedKey(key, data.items[key]) = newkey
    IN  Dict([newkey \in newkeys |->
                LET value == data.items[Source(newkey)]
                IN  IF IsDict(value) THEN RenameDictKeysWithChildDicts(value)
                    ELSE IF IsList(value)
                    THEN RenameListElementsIfTheyAreDicts(value)
                    ELSE value])

RenameListElementsIfTheyAreDicts(data) ==
    List([index \in DOMAIN data.elems |->
            IF IsList(data.elems[index])
            THEN RenameListElementsIfTheyAreDicts(data.elems[index])
            ELSE IF IsDict(data.elems[index])
            THEN RenameDictKeysWithChildDicts(data.elems[index])
            ELSE data.elems[index]])

\* the exception of data[key][0] on an empty list, as a result
IndexError ==
    [t |-> "IndexError", s |-> "list index out of range",
     items |-> NoItems, elems |-> <<>>]

\* _rename_dict_keys_with_child_dicts(_normalize_dict_values(data))
Normalize(data) ==
    LET stabilized == NormalizeDictValues(data)
    IN  IF RenameDictRaises(stabilized) THEN IndexError
        ELSE RenameDictKeysWithChildDicts(stabilized)

-----------------------------------------------------------------------------
(* The documents of the model.  A document keeps the fields the            *)
(* operations query or patch.                                              *)

Doc(index, doc_type, source) ==
    [index |-> index, doc_type |-> doc_type, source |-> source]

\* the fields of a transfer-file document the query/mutation layer uses
TransferFileData(fileuuid, sipuuid, tags) ==
    [fileuuid |-> fileuuid, sipuuid |-> sipuuid, tags |-> tags]

\* aip_data of index_aip_and_files
AipData(uuid) == [uuid |-> uuid]

\* transfer_data of index_transfer_and_files
TransferData(uuid, file_count) ==
    [uuid |-> uuid, pending_deletion |-> FALSE, file_count |-> file_count]

TagLists == {<<>>, <<"x">>, <<"y">>}

\* Documents a store may hold before the operations of the model run:
\* those of the index layout the query/mutation layer addresses
\* (index 'transfers' with the types 'transfer' and 'transferfile',
\* index 'aips' with the type 'aip').
SeedDocs ==
    {Doc("transfers", "transferfile", TransferFileData(f, s, t)) :
        f \in Identifiers, s \in {IdA, IdB}, t \in {<<>>, <<"x">>}}
    \cup {Doc("aips", "aip", AipData(u)) : u \in Identifiers}
    \cup {Doc("transfers", "transfer", TransferData(u, 0)) : u \in Identifiers}

\* what the model calls _try_to_index with
IndexWrites ==
    {[data |-> TransferFileData(IdA, IdA, <<>>), index |-> "transferfiles"],
     [data |-> AipData(IdA), index |-> "aips"]}

\* the positions at which the store may fail an operation of n store calls
Faults(n) == 0..n

-----------------------------------------------------------------------------
(* The transfer builder.  Paths are strings, modelled as sequences of      *)
(* path segments and separators.  The filesystem and the File table are    *)
(* those of the model; what the store answers to the health checks and to  *)
(* the index calls of a run is an input of the run.                        *)

\* the transfer directories, with the trailing / the callers pass
PathA == <<"ta", "/">>
PathB == <<"tb", "/">>
PathGone == <<"tc", "/">>

\* os.path.join(path, file)
Join(path, file) ==
    IF path # <<>> /\ path[Len(path)] = "/" THEN Append(path, file)
    ELSE path \o <<"/", file>>

\* the directories of the filesystem of the model
Directories == {PathA, PathB, Join(PathA, "u"), Join(PathB, "d")}

\* the entries of a directory: the transfer ta holds the file f and the
\* unreadable directory u, the transfer tb holds processingMCP.xml and the
\* directory d, which holds processingMCP.xml
DirEntries(path) ==
    IF path = PathA THEN {"f", "u"}
    ELSE IF path = PathB THEN {"d", "processingMCP.xml"}
    ELSE IF path = Join(PathB, "d") THEN {"processingMCP.xml"}
    ELSE IF path = Join(PathA, "u") THEN {"g"}
    ELSE {}

\* what os.listdir(path) may return: the entries of the directory, in
\* arbitrary order
ListDir(path) == Orderings(DirEntries(path))

\* os.path.isdir
IsDir(path) == path \in Directories

\* os.access(path, os.R_OK)
Readable(path) == path # Join(PathA, "u")

\* os.path.isfile
IsFile(path) ==
    path \in {Join(PathA, "f"), Join(Join(PathA, "u"), "g"),
              Join(PathB, "processingMCP.xml"),
              Join(Join(PathB, "d"), "processingMCP.xml"),
              <<"aip">>, <<"aip", "/", "METS.xml">>}

\* os.path.exists
Exists(path) == IsDir(path) \/ IsFile(path)

\* os.path.basename(path)
RECURSIVE Basename(_)
Basename(path) ==
    IF \E i \in DOMAIN path : path[i] = "/"
    THEN Basename(Tail(path))
    ELSE path

\* whether the string s starts with the string old
StartsWith(s, old) == Len(old) <= Len(s) /\ SubSeq(s, 1, Len(old)) = old

\* s.replace(old, new), for a non-empty old
RECURSIVE Replace(_, _, _)
Replace(s, old, new) ==
    IF s = <<>> THEN <<>>
    ELSE IF StartsWith(s, old)
    THEN new \o Replace(SubSeq(s, Len(old) + 1, Len(s)), old, new)
    ELSE <<Head(s)>> \o Replace(Tail(s), old, new)

\* ignore_files of _index_transfer_files
IgnoreFiles == {<<"processingMCP.xml">>}

\* the directories _list_files_in_dir(path) lists: the path and the
\* readable directories under it
ListedDirectories(path) ==
    {d \in Directories :
        IsDir(path) /\ (d = path \/ (StartsWith(d, path) /\ Readable(d)))}

\* what the calls of os.listdir of one _list_files_in_dir(path) may
\* return: for each directory it lists, one of the orders of its entries
Listings(path) ==
    {listing \in [ListedDirectories(path) ->
                      UNION {ListDir(d) : d \in ListedDirectories(path)}] :
        \A d \in ListedDirectories(path) : listing[d] \in ListDir(d)}

\* _list_files_in_dir(path, filepaths): every entry is appended to the
\* list it is given, the entries of a readable directory after it;
\* `listing` is what os.listdir returns for each directory
RECURSIVE ListFilesInDir(_, _, _)
RECURSIVE ListEntries(_, _, _, _)
ListEntries(path, names, paths, listing) ==
    IF names = <<>> THEN paths
    ELSE LET child_path == Join(path, Head(names))
             appended == Append(paths, child_path)
             below == IF IsDir(child_path) /\ Readable(child_path)
                      THEN ListFilesInDir(child_path, appended, listing)
                      ELSE appended
         IN  ListEntries(path, Tail(names), below, listing)

ListFilesInDir(path, paths, listing) ==
    ListEntries(path, listing[path], paths, listing)

\* what the store answers to the calls of one kind during a run, or during
\* one gate or one write of a run: first the outcomes of `prefix`, in
\* order, then `rest` for every further call
Answers(prefix, rest) == [prefix |-> prefix, rest |-> rest]

HealthRuns ==
    {Answers(<<>>, "green"), Answers(<<"red">>, "yellow"),
     Answers(<<"throw">>, "green"), Answers(<<>>, "red")}

WriteRuns ==
    {Answers(<<>>, "ok"), Answers(<<"fail">>, "ok"), Answers(<<>>, "fail")}

\* the outcomes of the next n calls of a kind, after `made` calls of it
NextAnswers(answers, made, n) ==
    [i \in 1..n |->
        IF made + i <= Len(answers.prefix) THEN answers.prefix[made + i]
        ELSE answers.rest]

\* how many calls of one kind a trace holds
CallsMade(calls, name) ==
    Cardinality({i \in DOMAIN calls : calls[i].call = name})

\* _wait_for_cluster_yellow_status(client)
\* _try_to_index(client, data, index)
GateAndWrite(st, data, index, health, writes, calls) ==
    LET gate == WaitLoop(None, 0, DefaultMaxTries,
                         NextAnswers(health, CallsMade(calls, "health"),
                                     DefaultMaxTries),
                         calls)
    IN  TryLoop(st, data, index, DefaultMaxTries,
                NextAnswers(writes, CallsMade(gate.calls, "index"),
                            DefaultMaxTries),
                0, 0, gate.calls)

\* File.objects.get(currentlocation=relative_path, transfer_id=uuid).uuid,
\* '' when the row does not exist
FileUuid(relative_path, uuid) ==
    LET rows == {f \in FileRows : /\ f.currentlocation = relative_path
                                  /\ f.transfer_id = uuid}
    IN  IF rows = {} THEN <<>> ELSE (CHOOSE f \in rows : TRUE).uuid

\* Transfer.objects.get(uuid=uuid).currentlocation.split('/')[-2], '' when
\* the row does not exist
TransferName(uuid) ==
    IF uuid = IdA THEN <<"ta">> ELSE IF uuid = IdB THEN <<"tb">> ELSE <<>>

\* indexData of _index_transfer_files for an entry of the list
IndexData(filepath, path, uuid) ==
    LET relative_path == Replace(filepath, path, <<"%transferDirectory%">>)
        file_uuid == FileUuid(relative_path, uuid)
    IN  [relative_path |-> Replace(relative_path, <<"%transferDirectory%">>,
                                   TransferName(uuid) \o <<"/">>),
         fileuuid |-> file_uuid, sipuuid |-> uuid, tags |-> <<>>]

\* a slip: no file is excluded
IndexedEveryFile(filepath) == IsFile(filepath)

\* whether _index_transfer_files indexes an entry of the list
Indexed(filepath) == IsFile(filepath) /\ Basename(filepath) \notin IgnoreFiles

\* _index_transfer_files: the for loop over the list of paths
RECURSIVE IndexTransferFilesLoop(_, _, _, _, _, _, _, _)
IndexTransferFilesLoop(st, uuid, path, paths, health, writes, files_indexed, calls) ==
    IF paths = <<>>
    THEN [store |-> st, calls |-> calls, result |-> Returned(files_indexed)]
    ELSE LET filepath == Head(paths)
             indexData == IndexData(filepath, path, uuid)
         IN  IF Indexed(filepath)
             THEN LET w == GateAndWrite(st, indexData, "transferfiles",
                                        health, writes, calls)
                  IN  IF w.result.kind = "raised" THEN w
                      ELSE IndexTransferFilesLoop(
                               w.store, uuid, path, Tail(paths), health,
                               writes, files_indexed + 1, w.calls)
             ELSE IndexTransferFilesLoop(st, uuid, path, Tail(paths), health,
                                         writes, files_indexed, calls)

\* _index_transfer_files; `listed` is what _list_files_in_dir(path)
\* returned
IndexTransferFiles(st, uuid, path, listed, health, writes) ==
    IndexTransferFilesLoop(st, uuid, path, listed, health, writes, 0, <<>>)

\* index_transfer_and_files; `paths` is the shared list before the call,
\* `listing` what os.listdir returns for the directories of the transfer
IndexTransferAndFiles(st, paths, uuid, path, listing, health, writes) ==
    IF ~Exists(path)
    THEN [store |-> st, filepaths |-> paths, calls |-> <<ReportCall>>,
          result |-> Returned(1)]
    ELSE LET listed == ListFilesInDir(path, paths, listing)
             files == IndexTransferFiles(st, uuid, path, listed,
                                         health, writes)
         IN  IF files.result.kind = "raised"
             THEN [store |-> files.store, filepaths |-> listed,
                   calls |-> files.calls, result |-> files.result]
             ELSE LET transfer_data == TransferData(uuid, files.result.value)
                      w == GateAndWrite(files.store, transfer_data,
                                        "transfers", health, writes,
                                        files.calls)
                  IN  [store |-> w.store, filepaths |-> listed,
                       calls |-> w.calls,
                       result |-> IF w.result.kind = "raised" THEN w.result
                                  ELSE Returned(0)]

-----------------------------------------------------------------------------
(* The AIP builder.  The METS file is modelled by what the builder reads   *)
(* of it: whether it is well-formed XML, whether its root has a            *)
(* mets:metsHdr, the file entries of the fileSec, in the order `files` has *)
(* them, and the amdSec elements they reference.  An entry names its       *)
(* amdSec (ADMID) or none; the UUIDs the regular expression finds in its   *)
(* ID are kept as a list.                                                  *)

\* the AIP and its METS file, and paths at which there is nothing
AipPath == <<"aip">>
AipGone == <<"aip0">>
MetsPath == <<"aip", "/", "METS.xml">>
MetsGone == <<"aip", "/", "METS0.xml">>

\* fileUUID = None, among identifiers
NoneUuid == <<None>>

\* an entry mets:file of the fileSec that has an attribute ID and a child
\* mets:FLocat with its href
FileEntry(uuids, admID) ==
    [ID |-> TRUE, uuids |-> uuids, ADMID |-> admID, FLocat |-> TRUE]

\* the amdSec elements of the METS files of the model
AmdSecs == {"amdSec_1", "amdSec_2"}

\* entries of a METS file as Archivematica writes it, and three entries it
\* does not write: one with neither ADMID nor ID, one whose ADMID names no
\* amdSec of the file, one without mets:FLocat
FileEntries ==
    {FileEntry(<<IdA>>, "amdSec_1"), FileEntry(<<IdB>>, "amdSec_2"),
     FileEntry(<<IdB>>, None), FileEntry(<<IdA, IdB>>, None),
     [FileEntry(<<>>, None) EXCEPT !.ID = FALSE],
     FileEntry(<<IdA>>, "amdSec_0"),
     [FileEntry(<<IdB>>, "amdSec_1") EXCEPT !.FLocat = FALSE]}

\* a METS file: whether ElementTree.parse accepts it, whether its root has
\* a mets:metsHdr, and its file entries
Mets(parses, metsHdr, files) ==
    [parses |-> parses, metsHdr |-> metsHdr, files |-> files]

\* the METS files of the model
MetsDocuments ==
    {Mets(TRUE, TRUE, files) :
        files \in UNION {[1..n -> FileEntries] : n \in 0..MaxFiles}}
    \cup {Mets(FALSE, FALSE, <<>>), Mets(TRUE, FALSE, <<>>)}

\* size or os.path.getsize(path): the size is given by the caller, or it
\* is measured, or the measure fails (the AIP is no longer at the path
\* that os.path.exists found a moment before)
Sizes == {"given", "measured", "OSError"}

\* root.find("mets:amdSec[@ID='...']"): the identifier of the object the
\* section describes and xmltodict.parse of the section
AmdSec(admID) ==
    IF admID = "amdSec_1"
    THEN [fileUUID |-> IdA, parsed |-> Dict("techMD" :> Str("x"))]
    ELSE [fileUUID |-> IdB,
          parsed |-> Dict("techMD" :> Dict("object" :> Str("x")))]

\* uuids = re.findall(uuix_regex, file_.attrib['ID']): the UUID when all
\* are identical, None otherwise
ParsedUuid(uuids) ==
    IF Cardinality({uuids[i] : i \in DOMAIN uuids}) = 1 THEN uuids[1]
    ELSE NoneUuid

\* fileData['METS']: the one dict every indexData shares with fileData
MetsOfFileData == [dmdSec |-> Normalize(EmptyDict), amdSec |-> EmptyDict]

\* indexData of _index_aip_files
AipFileData(uuid, fileUUID, mets) ==
    [AIPUUID |-> uuid, FILEUUID |-> fileUUID, METS |-> mets]

\* a slip: the shared amdSec is not reset
ResetAmdSecNot(mets) == mets

\* fileData['METS']['amdSec'] = {}
ResetAmdSec(mets) == [mets EXCEPT !.amdSec = EmptyDict]

\* index_aip_and_files from its first line to aip_data (352-412): what the
\* call does before its first request to the store, and whether it goes
\* on to it
AipStart(path, mets_path, mets, size) ==
    IF ~Exists(path) \/ ~Exists(mets_path)
    THEN [goes |-> FALSE, calls |-> <<ReportCall>>, result |-> Returned(1)]
    ELSE IF ~mets.parses
    THEN [goes |-> FALSE, calls |-> <<>>, result |-> Raised("ParseError", 0)]
    ELSE IF ~mets.metsHdr
    THEN [goes |-> FALSE, calls |-> <<>>,
          result |-> Raised("AttributeError", 0)]
    ELSE IF size = "OSError"
    THEN [goes |-> FALSE, calls |-> <<>>, result |-> Raised("OSError", 0)]
    ELSE [goes |-> TRUE, calls |-> <<>>, result |-> Returned(None)]

\* one file entry of the for loop of _index_aip_files, up to indexData
\* (495-526); `mets` is the shared dict fileData['METS'], which the entry
\* leaves with its amdSec when it has an ADMID
AipFileEntry(uuid, file_, mets) ==
    LET admID == file_.ADMID
    IN  IF admID = None /\ ~file_.ID
        THEN [mets |-> mets, data |-> <<>>, result |-> Raised("KeyError", 0)]
        ELSE IF admID # None /\ admID \notin AmdSecs
        THEN [mets |-> mets, data |-> <<>>,
              result |-> Raised("AttributeError", 0)]
        ELSE LET fileUUID == IF admID = None THEN ParsedUuid(file_.uuids)
                             ELSE AmdSec(admID).fileUUID
                 mets1 == IF admID = None THEN mets
                          ELSE [mets EXCEPT
                                   !.amdSec = Normalize(AmdSec(admID).parsed)]
             IN  IF ~file_.FLocat
                 THEN [mets |-> mets1, data |-> <<>>,
                       result |-> Raised("AttributeError", 0)]
                 ELSE [mets |-> mets1,
                       data |-> AipFileData(uuid, fileUUID, mets1),
                       result |-> Returned(None)]

-----------------------------------------------------------------------------
(* The index bootstrap.  An index of the store is None (it does not exist) *)
(* or holds a mapping: "static" is the body the module builds for it,      *)
(* "previous" and "racing" are mappings others gave it.                    *)

ExistsCall == [call |-> "exists"]
CreateCall(index, status) == [call |-> "create", index |-> index, status |-> status]

\* a slip: no status of indices.create is ignored
IgnoredStatusNone == {}

\* client.indices.create(..., ignore=400)
IgnoredStatus == {400}

\* client.indices.create(index, body) on the store: 400 when the index
\* exists; `racing` are the indexes another process creates between the
\* exists call and this create call
RECURSIVE CreateEach(_, _, _, _)
CreateEach(ind, names, racing, calls) ==
    IF names = <<>>
    THEN [indices |-> ind, calls |-> calls, result |-> Returned(None)]
    ELSE LET index == Head(names)
             raced == IF ind[index] = None /\ index \in racing
                      THEN [ind EXCEPT ![index] = "racing"] ELSE ind
             status == IF raced[index] = None THEN 200 ELSE 400
             created == IF status = 200
                        THEN [raced EXCEPT ![index] = "static"] ELSE raced
             made == Append(calls, CreateCall(index, status))
         IN  IF status = 400 /\ status \notin IgnoredStatus
             THEN [indices |-> created, calls |-> made,
                   result |-> Raised("RequestError", Len(made))]
             ELSE CreateEach(created, Tail(names), racing, made)

\* create_indexes_if_needed
CreateIndexesIfNeeded(ind, racing) ==
    IF \A index \in INDICES : ind[index] # None
    THEN [indices |-> ind, calls |-> <<ExistsCall>>, result |-> Returned(None)]
    ELSE CreateEach(ind, <<"aips", "aipfiles", "transfers", "transferfiles">>,
                    racing, <<ExistsCall>>)

-----------------------------------------------------------------------------
(* Specification of the store operations.                                  *)

NoTree == [t |-> None, s |-> "", items |-> NoItems, elems |-> <<>>]

\* which normalizer experiment the state holds, and the key it is about
Experiment(exp, key) == [exp |-> exp, key |-> key]

normvars == <<nin, nalt, nout, nout2, nmode>>

\* no run of index_transfer_and_files is under way
NoRuns == <<>>

\* the record of an operation: `before` is the store it was called on
Op(name, args, r) ==
    [op |-> name, args |-> args, before |-> store,
     calls |-> r.calls, result |-> r.result]

\* no operation is running and the result of the last one has been taken
Idle ==
    [op |-> "idle", args |-> <<>>, before |-> EmptyStore,
     calls |-> <<>>, result |-> Returned(None)]

Init ==
    /\ store \in [DocIds -> SeedDocs \cup {NoDoc}]
    /\ last = Idle
    /\ nin = NoTree /\ nalt = NoTree /\ nout = NoTree /\ nout2 = NoTree
    /\ nmode = Experiment("off", "")
    /\ filepaths = <<>>
    /\ runs = NoRuns
    /\ indices = [index \in INDICES |-> "static"]

WaitForClusterYellowStatusOp ==
    /\ last.op = "idle"
    /\ \E max_tries \in -1..MaxTries :
          \E outcomes \in [1..Max(max_tries, 0) -> HealthOutcomes] :
            /\ last' = Op("_wait_for_cluster_yellow_status",
                          [max_tries |-> max_tries, outcomes |-> outcomes],
                          WaitForClusterYellowStatus(max_tries, outcomes))
            /\ UNCHANGED <<store, normvars, filepaths, indices, runs>>

TryToIndexOp ==
    /\ last.op = "idle"
    /\ \E max_tries \in -1..MaxTries, w \in IndexWrites :
          \E outcomes \in [1..Max(max_tries, 0) -> WriteOutcomes] :
            /\ FreeIds(store) # {}
            /\ LET r == TryToIndex(store, w.data, w.index, max_tries, outcomes)
               IN  /\ store' = r.store
                   /\ last' = Op("_try_to_index",
                                 [max_tries |-> max_tries, outcomes |-> outcomes,
                                  data |-> w.data, index |-> w.index], r)
            /\ UNCHANGED <<normvars, filepaths, indices, runs>>

GetFileTagsOp ==
    /\ last.op = "idle"
    /\ \E uuid \in Identifiers, fault \in Faults(1) :
            LET r == GetFileTags(store, uuid, fault)
            IN  /\ store' = r.store
                /\ last' = Op("get_file_tags",
                              [uuid |-> uuid, fault |-> fault], r)
                /\ UNCHANGED <<normvars, filepaths, indices, runs>>

SetFileTagsOp ==
    /\ last.op = "idle"
    /\ \E uuid \in Identifiers, tags \in TagLists, fault \in Faults(2) :
          \E gone \in SUBSET Addressed(
                              SetFileTags(store, uuid, tags, fault, {}).calls) :
            LET r == SetFileTags(store, uuid, tags, fault, gone)
            IN  /\ fault <= Len(StoreCalls(r.calls))
                /\ gone \subseteq Addressed(r.calls)
                /\ store' = r.store
                /\ last' = Op("set_file_tags",
                              [uuid |-> uuid, tags |-> tags, fault |-> fault,
                               gone |-> gone], r)
                /\ UNCHANGED <<normvars, filepaths, indices, runs>>

MarkAipDeletionRequestedOp ==
    /\ last.op = "idle"
    /\ \E uuid \in Identifiers, fault \in Faults(2) :
          \E gone \in SUBSET Addressed(
                              MarkAipDeletionRequested(store, uuid, fault, {}).calls) :
            LET r == MarkAipDeletionRequested(store, uuid, fault, gone)
            IN  /\ fault <= Len(StoreCalls(r.calls))
                /\ gone \subseteq Addressed(r.calls)
                /\ store' = r.store
                /\ last' = Op("mark_aip_deletion_requested",
                              [uuid |-> uuid, fault |-> fault,
                               gone |-> gone], r)
                /\ UNCHANGED <<normvars, filepaths, indices, runs>>

MarkAipStoredOp ==
    /\ last.op = "idle"
    /\ \E uuid \in Identifiers, fault \in Faults(2) :
          \E gone \in SUBSET Addressed(
                              MarkAipStored(store, uuid, fault, {}).calls) :
            LET r == MarkAipStored(store, uuid, fault, gone)
            IN  /\ fault <= Len(StoreCalls(r.calls))
                /\ gone \subseteq Addressed(r.calls)
                /\ store' = r.store
                /\ last' = Op("mark_aip_stored",
                              [uuid |-> uuid, fault |-> fault,
                               gone |-> gone], r)
                /\ UNCHANGED <<normvars, filepaths, indices, runs>>

MarkBacklogDeletionRequestedOp ==
    /\ last.op = "idle"
    /\ \E uuid \in Identifiers, fault \in Faults(2) :
          \E gone \in SUBSET Addressed(
                              MarkBacklogDeletionRequested(store, uuid, fault, {}).calls) :
            LET r == MarkBacklogDeletionRequested(store, uuid, fault, gone)
            IN  /\ fault <= Len(StoreCalls(r.calls))
                /\ gone \subseteq Addressed(r.calls)
                /\ store' = r.store
                /\ last' = Op("mark_backlog_deletion_requested",
                              [uuid |-> uuid, fault |-> fault,
                               gone |-> gone], r)
                /\ UNCHANGED <<normvars, filepaths, indices, runs>>

RemoveBacklogTransferOp ==
    /\ last.op = "idle"
    /\ \E uuid \in Identifiers, fault \in Faults(1) :
            LET r == RemoveBacklogTransfer(store, uuid, fault)
            IN  /\ store' = r.store
                /\ last' = Op("remove_backlog_transfer",
                              [uuid |-> uuid, fault |-> fault], r)
                /\ UNCHANGED <<normvars, filepaths, indices, runs>>

DeleteAipOp ==
    /\ last.op = "idle"
    /\ \E uuid \in Identifiers, fault \in Faults(1) :
            LET r == DeleteAip(store, uuid, fault)
            IN  /\ store' = r.store
                /\ last' = Op("delete_aip", [uuid |-> uuid, fault |-> fault], r)
                /\ UNCHANGED <<normvars, filepaths, indices, runs>>

DeleteAipFilesOp ==
    /\ last.op = "idle"
    /\ \E uuid \in Identifiers, fault \in Faults(1) :
            LET r == DeleteAipFiles(store, uuid, fault)
            IN  /\ store' = r.store
                /\ last' = Op("delete_aip_files",
                              [uuid |-> uuid, fault |-> fault], r)
                /\ UNCHANGED <<normvars, filepaths, indices, runs>>

RemoveBacklogTransferFilesOp ==
    /\ last.op = "idle"
    /\ \E uuid \in Identifiers, fault \in Faults(1 + Cardinality(DOMAIN store)) :
          \E order \in Orderings(TransfersOfUnit(uuid, "transfer")) :
             \E gone \in Interferences(
                             Removable(store, order),
                             Len(order) + Cardinality(Removable(store, order))) :
            LET r == RemoveBacklogTransferFiles(store, uuid, order, fault, gone)
            IN  /\ fault <= Len(StoreCalls(r.calls))
                /\ \A k \in DOMAIN gone :
                      \A d \in gone[k] :
                          /\ k + 1 <= Len(r.calls)
                          /\ Targets(store, order, r.calls[k + 1], d)
                /\ store' = r.store
                /\ last' = Op("remove_backlog_transfer_files",
                              [uuid |-> uuid, order |-> order, fault |-> fault,
                               gone |-> gone], r)
                /\ UNCHANGED <<normvars, filepaths, indices, runs>>

RemoveSipTransferFilesOp ==
    /\ last.op = "idle"
    /\ \E uuid \in Identifiers, fault \in Faults(2 + Cardinality(DOMAIN store)) :
          \E order \in Orderings(TransfersOfUnit(uuid, "sip")) :
             \E gone \in Interferences(
                             Removable(store, order),
                             Len(order) + Cardinality(Removable(store, order))) :
            LET r == RemoveSipTransferFiles(store, uuid, order, fault, gone)
            IN  /\ fault <= Len(StoreCalls(r.calls))
                /\ \A k \in DOMAIN gone :
                      \A d \in gone[k] :
                          /\ k + 1 <= Len(r.calls)
                          /\ Targets(store, order, r.calls[k + 1], d)
                /\ store' = r.store
                /\ last' = Op("remove_sip_transfer_files",
                              [uuid |-> uuid, order |-> order, fault |-> fault,
                               gone |-> gone], r)
                /\ UNCHANGED <<normvars, filepaths, indices, runs>>

GetTransferFileInfoOp ==
    /\ last.op = "idle"
    /\ \E field \in {"fileuuid", "sipuuid", "uuid"}, value \in Identifiers,
          fault \in Faults(1) :
          \E hits \in RankedHits(store, "transfers", field, value) :
            LET r == GetTransferFileInfo(store, field, value, hits, fault)
            IN  /\ store' = r.store
                /\ last' = Op("get_transfer_file_info",
                              [field |-> field, value |-> value,
                               hits |-> hits, fault |-> fault], r)
                /\ UNCHANGED <<normvars, filepaths, indices, runs>>

\* the caller takes the result of the operation; the next operation
\* finds the store as this one left it
ReturnToCaller ==
    /\ last.op # "idle"
    /\ last' = Idle
    /\ UNCHANGED <<store, normvars, filepaths, indices, runs>>

Next ==
    \/ WaitForClusterYellowStatusOp
    \/ TryToIndexOp
    \/ GetFileTagsOp
    \/ SetFileTagsOp
    \/ MarkAipDeletionRequestedOp
    \/ MarkAipStoredOp
    \/ MarkBacklogDeletionRequestedOp
    \/ RemoveBacklogTransferOp
    \/ DeleteAipOp
    \/ DeleteAipFilesOp
    \/ RemoveBacklogTransferFilesOp
    \/ RemoveSipTransferFilesOp
    \/ GetTransferFileInfoOp
    \/ ReturnToCaller

Spec == Init /\ [][Next]_vars

-----------------------------------------------------------------------------
(* Specification of the bootstrap: each index exists with a previous       *)
(* mapping or does not exist; get_client calls create_indexes_if_needed    *)
(* every time it is asked for the client.                                  *)

BootInit ==
    /\ store = EmptyStore
    /\ last = Idle
    /\ nin = NoTree /\ nalt = NoTree /\ nout = NoTree /\ nout2 = NoTree
    /\ nmode = Experiment("off", "")
    /\ filepaths = <<>>
    /\ runs = NoRuns
    /\ indices \in [INDICES -> {None, "previous"}]

CreateIndexesIfNeededOp ==
    /\ last.op = "idle"
    /\ \E racing \in SUBSET INDICES :
          LET r == CreateIndexesIfNeeded(indices, racing)
          IN  /\ indices' = r.indices
              /\ last' = Op("create_indexes_if_needed",
                            [indices |-> indices, racing |-> racing], r)
    /\ UNCHANGED <<store, normvars, filepaths, runs>>

BootNext ==
    \/ CreateIndexesIfNeededOp
    \/ ReturnToCaller

BootSpec == BootInit /\ [][BootNext]_vars

-----------------------------------------------------------------------------
(* Runs of the builders.  A call of index_transfer_and_files or of         *)
(* index_aip_and_files is not one step: between two of its requests to     *)
(* the store, and between two of its filesystem calls, the other callers   *)
(* of the process and of the store take their steps.  A run is the record  *)
(* of where a call is and of its local variables.  What the store answers  *)
(* to the health checks of one gate and to the attempts of one write is an *)
(* input of that step.                                                     *)

\* no document is waiting to be written
NoPending == [index |-> None, data |-> <<>>]

\* no call is under way.  Of a run: `todo` are the entries the calls of
\* _list_files_in_dir under way have still to visit, `pos` is the position
\* of the iterator of the for loop (over the list of paths, or over the
\* file entries `files` of the METS file), `mets` is fileData['METS'],
\* `doc` the document built and not yet written, `gated` how many times
\* the run has waited for the cluster, `wrote` the documents the run has
\* written, in order, `calls` the calls of its last step, `earlier` the
\* runs that had returned when this one listed its directory
RunIdle ==
    [pc |-> "idle", builder |-> None, uuid |-> <<>>, path |-> <<>>,
     earlier |-> {},
     mets_path |-> <<>>, todo |-> <<>>, pos |-> 1, files_indexed |-> 0,
     files |-> <<>>, mets |-> MetsOfFileData, doc |-> NoPending,
     gated |-> 0, wrote |-> <<>>, calls |-> <<>>, result |-> Returned(None)]

\* index_transfer_and_files(client, uuid, path) has been called
RunReady(uuid, path) ==
    [RunIdle EXCEPT !.pc = "ready", !.builder = "transfer",
                    !.uuid = uuid, !.path = path]

\* the child paths of a directory, in the order `names` of os.listdir
ChildPaths(path, names) == [k \in DOMAIN names |-> Join(path, names[k])]

\* how many entries _list_files_in_dir(path) appends to the list
ListedEntries(path) ==
    IF ~IsDir(path) THEN 0
    ELSE Len(ListFilesInDir(path, <<>>,
                            CHOOSE listing \in Listings(path) : TRUE))

\* a caller calls index_transfer_and_files
IndexTransferAndFilesCall(i) ==
    /\ last.op = "idle"
    /\ runs[i].pc = "idle"
    /\ \E uuid \in {IdA, IdB}, path \in {PathA, PathB, PathGone} :
          /\ Len(filepaths) + ListedEntries(path) <= MaxPaths
          /\ runs' = [runs EXCEPT ![i] = RunReady(uuid, path)]
    /\ UNCHANGED <<store, last, normvars, filepaths, indices>>

\* index_transfer_and_files up to os.listdir(path) of _list_files_in_dir:
\* a transfer that does not exist is reported and the call returns 1
RunStart(i) ==
    /\ last.op = "idle"
    /\ runs[i].pc = "ready"
    /\ IF ~Exists(runs[i].path)
       THEN runs' = [runs EXCEPT ![i].pc = "done",
                                 ![i].calls = <<ReportCall>>,
                                 ![i].result = Returned(1)]
       ELSE \E names \in ListDir(runs[i].path) :
               runs' = [runs EXCEPT
                           ![i].pc = "listing",
                           ![i].todo = ChildPaths(runs[i].path, names),
                           ![i].earlier = {j \in DOMAIN runs :
                                              runs[j].pc = "done"}]
    /\ UNCHANGED <<store, last, normvars, filepaths, indices>>

\* _list_files_in_dir: one entry is appended to the list; a readable
\* directory is listed and its entries are visited before the others
RunList(i) ==
    /\ last.op = "idle"
    /\ runs[i].pc = "listing"
    /\ runs[i].todo # <<>>
    /\ LET child_path == Head(runs[i].todo)
       IN  /\ filepaths' = Append(filepaths, child_path)
           /\ IF IsDir(child_path) /\ Readable(child_path)
              THEN \E names \in ListDir(child_path) :
                      runs' = [runs EXCEPT ![i].todo =
                                  ChildPaths(child_path, names)
                                      \o Tail(runs[i].todo)]
              ELSE runs' = [runs EXCEPT ![i].todo = Tail(runs[i].todo)]
    /\ UNCHANGED <<store, last, normvars, indices>>

\* return filepaths: the for loop of _index_transfer_files starts on the
\* list object itself
RunListed(i) ==
    /\ last.op = "idle"
    /\ runs[i].pc = "listing"
    /\ runs[i].todo = <<>>
    /\ runs' = [runs EXCEPT ![i].pc = "indexing"]
    /\ UNCHANGED <<store, last, normvars, filepaths, indices>>

\* the for loop of _index_transfer_files takes the next entry of the list:
\* for a file that is not excluded indexData is built, any other entry is
\* passed over
RunIndex(i) ==
    /\ last.op = "idle"
    /\ runs[i].pc = "indexing"
    /\ runs[i].pos <= Len(filepaths)
    /\ LET filepath == filepaths[runs[i].pos]
           indexData == IndexData(filepath, runs[i].path, runs[i].uuid)
       IN  IF Indexed(filepath)
           THEN runs' = [runs EXCEPT
                            ![i].pc = "gate",
                            ![i].doc = [index |-> "transferfiles",
                                        data |-> indexData]]
           ELSE runs' = [runs EXCEPT ![i].pos = @ + 1]
    /\ UNCHANGED <<store, last, normvars, filepaths, indices>>

\* the iterator finds the list exhausted: _index_transfer_files returns
\* files_indexed and index_transfer_and_files builds transfer_data
RunExhausted(i) ==
    /\ last.op = "idle"
    /\ runs[i].pc = "indexing"
    /\ runs[i].pos > Len(filepaths)
    /\ runs' = [runs EXCEPT
                   ![i].pc = "gate",
                   ![i].doc = [index |-> "transfers",
                               data |-> TransferData(runs[i].uuid,
                                                     runs[i].files_indexed)]]
    /\ UNCHANGED <<store, last, normvars, filepaths, indices>>

\* a caller calls index_aip_and_files, which runs up to aip_data: a
\* missing AIP or METS file is reported and the call returns 1; a METS
\* file that is not XML, a root without metsHdr and a size that cannot be
\* measured raise
IndexAipAndFilesStart(i) ==
    /\ last.op = "idle"
    /\ runs[i].pc = "idle"
    /\ \E uuid \in {IdA, IdB}, path \in {AipPath, AipGone},
          mets_path \in {MetsPath, MetsGone}, mets \in MetsDocuments,
          size \in Sizes :
          LET r == AipStart(path, mets_path, mets, size)
              called == [RunIdle EXCEPT !.builder = "aip", !.uuid = uuid,
                                        !.path = path,
                                        !.mets_path = mets_path,
                                        !.calls = r.calls]
          IN  runs' = [runs EXCEPT ![i] =
                  IF ~r.goes
                  THEN [called EXCEPT !.pc = "done", !.result = r.result]
                  ELSE [called EXCEPT
                           !.pc = "gate", !.files = mets.files,
                           !.doc = [index |-> "aips",
                                    data |-> AipData(uuid)]]]
    /\ UNCHANGED <<store, last, normvars, filepaths, indices>>

\* the for loop of _index_aip_files takes the next file entry and builds
\* indexData, or raises on an entry it cannot read; when the entries are
\* exhausted _index_aip_files returns and index_aip_and_files returns 0
RunAipFile(i) ==
    /\ last.op = "idle"
    /\ runs[i].pc = "files"
    /\ LET run == runs[i]
       IN  IF run.pos > Len(run.files)
           THEN runs' = [runs EXCEPT ![i].pc = "done",
                                     ![i].calls = <<>>,
                                     ![i].result = Returned(0)]
           ELSE LET e == AipFileEntry(run.uuid, run.files[run.pos], run.mets)
                IN  runs' = [runs EXCEPT ![i] =
                        IF e.result.kind = "raised"
                        THEN [run EXCEPT !.pc = "done", !.mets = e.mets,
                                         !.calls = <<>>,
                                         !.result = e.result]
                        ELSE [run EXCEPT
                                 !.pc = "gate", !.mets = e.mets,
                                 !.doc = [index |-> "aipfiles",
                                          data |-> e.data]]]
    /\ UNCHANGED <<store, last, normvars, filepaths, indices>>

\* _wait_for_cluster_yellow_status(client), before the write of the
\* document that is built
RunGate(i) ==
    /\ last.op = "idle"
    /\ runs[i].pc = "gate"
    /\ \E health \in HealthRuns :
          runs' = [runs EXCEPT
                      ![i].pc = "write",
                      ![i].gated = @ + 1,
                      ![i].calls = WaitForClusterYellowStatus(
                                       DefaultMaxTries,
                                       NextAnswers(health, 0,
                                                   DefaultMaxTries)).calls]
    /\ UNCHANGED <<store, last, normvars, filepaths, indices>>

\* _try_to_index(client, data, index) of the document that is built, and
\* what follows it up to the next step: files_indexed + 1 and the next
\* entry of the list; return 0 after the document of the transfer;
\* _index_aip_files after the document of the AIP; the reset of
\* fileData['METS']['amdSec'] and the next file entry.  A write that has
\* failed max_tries times raises out of the run.
RunWrite(i) ==
    /\ last.op = "idle"
    /\ runs[i].pc = "write"
    /\ FreeIds(store) # {}
    /\ \E writes \in WriteRuns :
          LET run == runs[i]
              w == TryToIndex(store, run.doc.data, run.doc.index,
                              DefaultMaxTries,
                              NextAnswers(writes, 0, DefaultMaxTries))
              written == [run EXCEPT !.calls = w.calls,
                                     !.wrote = Append(@, run.doc),
                                     !.doc = NoPending]
          IN  /\ store' = w.store
              /\ runs' = [runs EXCEPT ![i] =
                    IF w.result.kind = "raised"
                    THEN [run EXCEPT !.pc = "done", !.calls = w.calls,
                                     !.result = w.result]
                    ELSE IF run.doc.index = "transferfiles"
                    THEN [written EXCEPT !.pc = "indexing", !.pos = @ + 1,
                                         !.files_indexed = @ + 1]
                    ELSE IF run.doc.index = "transfers"
                    THEN [written EXCEPT !.pc = "done",
                                         !.result = Returned(0)]
                    ELSE IF run.doc.index = "aips"
                    THEN [written EXCEPT !.pc = "files"]
                    ELSE [written EXCEPT !.pc = "files", !.pos = @ + 1,
                                         !.mets = ResetAmdSec(@)]]
    /\ UNCHANGED <<last, normvars, filepaths, indices>>

-----------------------------------------------------------------------------
(* Specification of the builders: the store is empty at the start, a       *)
(* caller calls one of the builders, and the callers of the                *)
(* query/mutation layer take their steps between the steps of the run and  *)
(* on what the run wrote.  (Calls of the transfer builder that follow one  *)
(* another, or overlap, in one process are those of RunsSpec.)             *)

BuildRunIds == {1}

BuildInit ==
    /\ store = [id \in BuildDocIds |-> NoDoc]
    /\ last = Idle
    /\ nin = NoTree /\ nalt = NoTree /\ nout = NoTree /\ nout2 = NoTree
    /\ nmode = Experiment("off", "")
    /\ filepaths = <<>>
    /\ runs = [i \in BuildRunIds |-> RunIdle]
    /\ indices = [index \in INDICES |-> "static"]

BuildNext ==
    \/ \E i \in DOMAIN runs : IndexTransferAndFilesCall(i)
    \/ \E i \in DOMAIN runs : RunStart(i)
    \/ \E i \in DOMAIN runs : RunList(i)
    \/ \E i \in DOMAIN runs : RunListed(i)
    \/ \E i \in DOMAIN runs : RunIndex(i)
    \/ \E i \in DOMAIN runs : RunExhausted(i)
    \/ \E i \in DOMAIN runs : IndexAipAndFilesStart(i)
    \/ \E i \in DOMAIN runs : RunAipFile(i)
    \/ \E i \in DOMAIN runs : RunGate(i)
    \/ \E i \in DOMAIN runs : RunWrite(i)
    \/ GetFileTagsOp
    \/ SetFileTagsOp
    \/ MarkAipDeletionRequestedOp
    \/ MarkAipStoredOp
    \/ MarkBacklogDeletionRequestedOp
    \/ RemoveBacklogTransferOp
    \/ DeleteAipOp
    \/ DeleteAipFilesOp
    \/ ReturnToCaller

BuildSpec == BuildInit /\ [][BuildNext]_vars

-----------------------------------------------------------------------------
(* Specification of two runs of index_transfer_and_files in one process,   *)
(* one for the transfer IdA at ta/ and one for the transfer IdB at tb/,    *)
(* interleaved at their filesystem and store calls.  Each run has its own  *)
(* local variables; the list `filepaths` is the one default object of      *)
(* _list_files_in_dir.                                                     *)

RunIds == {1, 2}

\* the arguments of a run
RunArgs(i) ==
    IF i = 1 THEN [uuid |-> IdA, path |-> PathA]
    ELSE [uuid |-> IdB, path |-> PathB]

RunsInit ==
    /\ store = [id \in 1..4 |-> NoDoc]
    /\ last = Idle
    /\ nin = NoTree /\ nalt = NoTree /\ nout = NoTree /\ nout2 = NoTree
    /\ nmode = Experiment("off", "")
    /\ filepaths = <<>>
    /\ indices = [index \in INDICES |-> "static"]
    /\ runs = [i \in RunIds |-> RunReady(RunArgs(i).uuid, RunArgs(i).path)]

RunsNext ==
    \/ \E i \in RunIds : RunStart(i)
    \/ \E i \in RunIds : RunList(i)
    \/ \E i \in RunIds : RunListed(i)
    \/ \E i \in RunIds : RunIndex(i)
    \/ \E i \in RunIds : RunExhausted(i)
    \/ \E i \in RunIds : RunGate(i)
    \/ \E i \in RunIds : RunWrite(i)

RunsSpec == RunsInit /\ [][RunsNext]_vars

-----------------------------------------------------------------------------
(* Specification of the normalizer: a raw tree is drawn, then normalized.  *)

Keys == {"a", "b"}

Scalars == {Str("x"), NoneValue}

\* the mappings a key of a raw tree may hold
InnerMappings ==
    {EmptyDict,
     Dict("a" :> Str("x")),
     Dict("a" :> Dict("a" :> Str("x")))}

\* the elements of the lists of a raw tree
Elements ==
    Scalars \cup {Dict("a" :> Str("x")),
                  Dict("a" :> Dict("a" :> Str("x"))),
                  List(<<Str("x")>>)}

Lists == {List(l) : l \in UNION {[1..n -> Elements] : n \in 0..MaxLen}}

Values == Scalars \cup InnerMappings \cup Lists

\* the raw trees: mappings of the keys to scalars, mappings and lists
Trees == {Dict(f) : f \in UNION {[ks -> Values] : ks \in SUBSET Keys}}

\* what a key holds in the sibling of a record
SiblingValues ==
    {Str("x"),
     Dict("a" :> Str("x")),
     List(<<Str("x")>>),
     List(<<Dict("a" :> Str("x"))>>),
     List(<<Str("x"), Dict("a" :> Str("x"))>>)}

Raises(result) == result.t = "IndexError"

NormInit ==
    /\ store = EmptyStore
    /\ last = Idle
    /\ nin \in Trees
    /\ nalt = NoTree /\ nout = NoTree /\ nout2 = NoTree
    /\ nmode = Experiment("raw", "")
    /\ filepaths = <<>>
    /\ runs = NoRuns
    /\ indices = [index \in INDICES |-> "static"]

\* what a dict is once _rename_dict_keys_with_child_dicts(data) has
\* returned: the pass builds new dicts and leaves the keys of `data` as
\* they are, but _rename_list_elements_if_they_are_dicts assigns to the
\* elements of the lists themselves (data[index] = ...), and these lists
\* are the ones `data` holds
RECURSIVE RenamedInPlace(_)
RenamedInPlace(data) ==
    Dict([key \in DOMAIN data.items |->
            IF IsDict(data.items[key])
            THEN RenamedInPlace(data.items[key])
            ELSE IF IsList(data.items[key])
            THEN RenameListElementsIfTheyAreDicts(data.items[key])
            ELSE data.items[key]])

\* first = normalize(x); second = normalize(first).  _normalize_dict_values
\* changes the dict it is given and returns it, and the renaming pass
\* changes its lists in place, so the second call changes the object
\* `first`: nout is that object as the second call leaves it, nout2 the
\* object the second call returns.  nin is the value of x before the calls.
NormalizeTwice ==
    /\ nmode.exp = "raw"
    /\ LET first == Normalize(nin)
       IN  IF Raises(first)
           THEN nout' = first /\ nout2' = first
           ELSE /\ nout' = RenamedInPlace(NormalizeDictValues(first))
                /\ nout2' = Normalize(first)
    /\ nmode' = Experiment("twice", "")
    /\ UNCHANGED <<store, last, nin, nalt, filepaths, indices, runs>>

\* _normalize_dict_values applied to its own result
StabilizeTwice ==
    /\ nmode.exp = "raw"
    /\ nout' = NormalizeDictValues(nin)
    /\ nout2' = NormalizeDictValues(nout')
    /\ nmode' = Experiment("stabilized twice", "")
    /\ UNCHANGED <<store, last, nin, nalt, filepaths, indices, runs>>

\* normalize of a tree whose key holds a mapping m and of the same tree
\* with the one-element list [m] under that key
NormalizeWrapped ==
    /\ nmode.exp = "raw"
    /\ \E key \in DOMAIN nin.items :
        /\ IsDict(nin.items[key])
        /\ nalt' = Dict([nin.items EXCEPT ![key] = List(<<nin.items[key]>>)])
        /\ nmode' = Experiment("wrapped", key)
    /\ nout' = Normalize(nin)
    /\ nout2' = Normalize(nalt')
    /\ UNCHANGED <<store, last, nin, filepaths, indices, runs>>

\* normalize of two sibling records: the second holds another value
\* under one key
NormalizeSiblings ==
    /\ nmode.exp = "raw"
    /\ \E key \in DOMAIN nin.items, value \in SiblingValues :
        /\ nalt' = Dict([nin.items EXCEPT ![key] = value])
        /\ nmode' = Experiment("siblings", key)
    /\ nout' = Normalize(nin)
    /\ nout2' = Normalize(nalt')
    /\ UNCHANGED <<store, last, nin, filepaths, indices, runs>>

NormNext ==
    \/ NormalizeTwice
    \/ StabilizeTwice
    \/ NormalizeWrapped
    \/ NormalizeSiblings

NormSpec == NormInit /\ [][NormNext]_vars

-----------------------------------------------------------------------------
(* Properties of the resilient writer.                                     *)

\* how many calls of one kind an operation made
CountCalls(calls, name) ==
    Cardinality({i \in DOMAIN calls : calls[i].call = name})

\* how many documents a store holds
CountDocs(st) == Cardinality({id \in DOMAIN st : Present(st, id)})

\* the first position of a sequence of outcomes that is in `good`, or 0
FirstIn(outcomes, good) ==
    IF \E i \in DOMAIN outcomes : outcomes[i] \in good
    THEN SetMin({i \in DOMAIN outcomes : outcomes[i] \in good})
    ELSE 0

\* C1: _try_to_index with max_tries = M >= 1 whose index call fails N-1
\* times and succeeds on attempt N returns normally after exactly N index
\* attempts, the document written once; when all M attempts fail, exactly
\* M attempts are made and the exception of the M-th attempt is raised.
TryToIndexAttemptsExact ==
    (last.op = "_try_to_index" /\ last.args.max_tries >= 1) =>
        LET M == last.args.max_tries
            N == FirstIn(last.args.outcomes, {"ok"})
            attempts == CountCalls(last.calls, "index")
        IN  IF N # 0
            THEN /\ last.result = Returned(None)
                 /\ attempts = N
                 /\ CountCalls(last.calls, "sleep") = N - 1
                 /\ last.calls[Len(last.calls)].call = "index"
                 /\ CountDocs(store) = CountDocs(last.before) + 1
            ELSE /\ last.result = Raised("TransportError", M)
                 /\ attempts = M
                 /\ store = last.before

\* a write that failed, then succeeded before the last attempt allowed
TryToIndexSucceededOnRetry ==
    /\ last.op = "_try_to_index"
    /\ last.result.kind = "returned"
    /\ CountCalls(last.calls, "index") = 2
    /\ last.args.max_tries > 2
    /\ store # last.before

\* C2: _try_to_index called with max_tries of zero or less raises the
\* invalid-configuration error at once: no index call, no delay, no
\* document written, and it never returns normally.
TryToIndexRejectsZeroMaxTries ==
    (last.op = "_try_to_index" /\ last.args.max_tries < 1) =>
        /\ last.result = Raised("ValueError", 0)
        /\ last.calls = <<>>
        /\ store = last.before

\* a call with max_tries = 0 was rejected
TryToIndexZeroMaxTriesRejected ==
    /\ last.op = "_try_to_index"
    /\ last.args.max_tries = 0
    /\ last.result.kind = "raised"

\* C4: _wait_for_cluster_yellow_status always returns normally; it makes
\* at most max_tries health checks, stops at the first check that reports
\* yellow or green, counts a check that throws as not healthy, and returns
\* after max_tries checks when none reported a healthy status.
HealthGateBoundedBestEffort ==
    last.op = "_wait_for_cluster_yellow_status" =>
        LET M == Max(last.args.max_tries, 0)
            k == FirstIn(last.args.outcomes, {"yellow", "green"})
            checks == CountCalls(last.calls, "health")
        IN  /\ last.result = Returned(None)
            /\ checks <= M
            /\ checks = (IF k # 0 THEN k ELSE M)
            /\ k # 0 => last.calls[Len(last.calls)].call = "health"
            /\ \A i \in DOMAIN last.calls :
                   last.calls[i].call \in {"health", "sleep"}
            /\ store = last.before

\* the gate returned although no check succeeded and one of them threw
HealthGateGaveUp ==
    /\ last.op = "_wait_for_cluster_yellow_status"
    /\ last.args.max_tries >= 2
    /\ FirstIn(last.args.outcomes, {"yellow", "green"}) = 0
    /\ \E i \in DOMAIN last.args.outcomes : last.args.outcomes[i] = "throw"
    /\ last.result.kind = "returned"
    /\ CountCalls(last.calls, "health") = last.args.max_tries

-----------------------------------------------------------------------------
(* Properties of the normalizer.                                           *)

\* C5 (as claimed): normalize(normalize(x)) == normalize(x) for every
\* tree x whose normalization does not fail on an empty list: the result
\* of the second application equals what the first application returned
\* for x, and equals the object the first application returned as the
\* caller holds it after the second.
NormalizeIdempotent ==
    (nmode.exp = "twice" /\ ~Raises(nout)) =>
        /\ nout2 = Normalize(nin)
        /\ nout2 = nout

\* C6: a tree in which a key holds a mapping m and the tree in which it
\* holds the list [m] normalize to the same output; the key is renamed to
\* key_dict_list and holds the one-element list of the normalized m.
NormalizeShapeStable ==
    nmode.exp = "wrapped" =>
        /\ nout2 = nout
        /\ ~Raises(nout) =>
            LET newkey == ListKey(nmode.key, "dict")
            IN  /\ newkey \in DOMAIN nout.items
                /\ nmode.key \notin DOMAIN nout.items
                /\ nout.items[newkey] = List(<<Normalize(nin.items[nmode.key])>>)

\* the pair was normalized for a mapping that itself holds a mapping
NormalizeWrappedNested ==
    /\ nmode.exp = "wrapped"
    /\ ~Raises(nout)
    /\ \E key \in DOMAIN nin.items[nmode.key].items :
           IsDict(nin.items[nmode.key].items[key])
    /\ nalt # nin

\* the mappings a value holds, itself or as elements of its lists
RECURSIVE ObjectsOf(_)
ObjectsOf(value) ==
    IF IsDict(value) THEN {value}
    ELSE IF IsList(value)
    THEN UNION {ObjectsOf(value.elems[i]) : i \in DOMAIN value.elems}
    ELSE {}

\* whether a value holds a string, itself or as element of its lists
RECURSIVE HasText(_)
HasText(value) ==
    IF IsList(value)
    THEN \E i \in DOMAIN value.elems : HasText(value.elems[i])
    ELSE value.t = "str"

\* whether, among mappings found at one position, some key holds a string
\* in one place and a mapping in another (lists are transparent, as for
\* the store), at this position or below
RECURSIVE Collides(_)
Collides(records) ==
    \E key \in UNION {DOMAIN r.items : r \in records} :
        LET values == {r.items[key] :
                          r \in {q \in records : key \in DOMAIN q.items}}
        IN  \/ /\ \E value \in values : HasText(value)
               /\ \E value \in values : ObjectsOf(value) # {}
            \/ Collides(UNION {ObjectsOf(value) : value \in values})

\* C7 (as claimed): over two normalized sibling records, no output key at
\* one structural position holds values of different shapes (a string in
\* one place, a mapping in another).
NormalizeAvoidsCollisions ==
    (nmode.exp = "siblings" /\ ~Raises(nout) /\ ~Raises(nout2)) =>
        ~Collides({nout, nout2})

-----------------------------------------------------------------------------
(* Properties of the query/mutation layer.                                 *)

\* the transfer-file documents of a store whose file identifier is uuid
FileDocuments(st, uuid) ==
    {id \in DOMAIN st :
        /\ Present(st, id)
        /\ st[id].doc_type = "transferfile"
        /\ st[id].source["fileuuid"] = uuid}

\* the documents of a type whose 'uuid' is uuid
UnitDocuments(st, doc_type, uuid) ==
    {id \in DOMAIN st :
        /\ Present(st, id)
        /\ st[id].doc_type = doc_type
        /\ st[id].source["uuid"] = uuid}

\* the update calls of the last operation
UpdateCalls == {i \in DOMAIN last.calls : last.calls[i].call = "update"}

\* C8: get_file_tags(uuid) and set_file_tags(uuid, tags), once their
\* search has answered: with no document matching the file identifier
\* they raise EmptySearchResultError, with more than one
\* TooManyResultsError, and no update reaches the store in either case;
\* with exactly one, get_file_tags returns its tags and set_file_tags
\* issues one update, of that document.
TagLookupCardinality ==
    (/\ last.op \in {"get_file_tags", "set_file_tags"}
     /\ IsUUID(last.args.uuid)
     /\ last.args.fault # 1) =>
        LET found == FileDocuments(last.before, last.args.uuid)
            count == Cardinality(found)
        IN  /\ count = 0 =>
                /\ last.result = Raised("EmptySearchResultError", 0)
                /\ UpdateCalls = {}
                /\ store = last.before
            /\ count > 1 =>
                /\ last.result = Raised("TooManyResultsError", 0)
                /\ UpdateCalls = {}
                /\ store = last.before
            /\ (count = 1 /\ last.op = "get_file_tags") =>
                \E id \in found :
                    last.result = Returned(last.before[id].source["tags"])
            /\ (count = 1 /\ last.op = "set_file_tags") =>
                /\ Cardinality(UpdateCalls) = 1
                /\ \A i \in UpdateCalls : last.calls[i].id \in found

\* set_file_tags found two documents for the file identifier
SetFileTagsTooManyResults ==
    /\ last.op = "set_file_tags"
    /\ Cardinality(FileDocuments(last.before, last.args.uuid)) = 2
    /\ last.result.kind = "raised"
    /\ last.result.exc = "TooManyResultsError"

\* C9: when exactly one document matches the file identifier, from the
\* search to the update (no other caller deletes it in between), and the
\* store answers, set_file_tags(uuid, T) leaves that document with the
\* tags T (the former tags are replaced), every other field of it and
\* every other document as they were, and get_file_tags(uuid) then
\* returns T (the empty list when T is empty).
SetFileTagsReplacesTags ==
    (/\ last.op = "set_file_tags"
     /\ IsUUID(last.args.uuid)
     /\ last.args.fault = 0
     /\ last.args.gone = {}
     /\ Cardinality(FileDocuments(last.before, last.args.uuid)) = 1) =>
        LET id == CHOOSE d \in FileDocuments(last.before, last.args.uuid) : TRUE
        IN  /\ last.result = Returned(TRUE)
            /\ store[id].source["tags"] = last.args.tags
            /\ store[id].index = last.before[id].index
            /\ store[id].doc_type = last.before[id].doc_type
            /\ DOMAIN store[id].source = DOMAIN last.before[id].source
            /\ \A f \in DOMAIN store[id].source \ {"tags"} :
                   store[id].source[f] = last.before[id].source[f]
            /\ \A other \in DOMAIN store \ {id} : store[other] = last.before[other]
            /\ GetFileTags(store, last.args.uuid, 0).result
                   = Returned(last.args.tags)

\* the tags of the one matching document were replaced by other tags,
\* next to a second document
SetFileTagsReplacedOtherTags ==
    /\ last.op = "set_file_tags"
    /\ last.result = Returned(TRUE)
    /\ CountDocs(store) = 2
    /\ \E id \in FileDocuments(last.before, last.args.uuid) :
          /\ last.before[id].source["tags"] = <<"x">>
          /\ store[id].source["tags"] = <<"y">>

MarkOperations ==
    {"mark_aip_deletion_requested", "mark_aip_stored",
     "mark_backlog_deletion_requested"}

\* the document type, the field and the value of a status update
MarkDocType(op) ==
    IF op = "mark_backlog_deletion_requested" THEN "transfer" ELSE "aip"
MarkField(op) ==
    IF op = "mark_backlog_deletion_requested" THEN "pending_deletion"
    ELSE "status"

\* C10: a status update, once its lookup has answered, issues its patch
\* only when the lookup resolved to exactly one document, addresses that
\* document, and changes nothing but the patched field of that document
\* (a document another caller deleted after the lookup stays deleted and
\* the update of it raises NotFoundError); when the lookup resolves to no
\* document the operation logs an error, returns without raising, issues
\* no update and leaves the store unchanged.
UpdateFieldPatchesResolvedDocument ==
    (/\ last.op \in MarkOperations
     /\ IsUUID(last.args.uuid)
     /\ last.args.fault # 1) =>
        LET found == UnitDocuments(last.before, MarkDocType(last.op),
                                   last.args.uuid)
            field == MarkField(last.op)
        IN  /\ Cardinality(UpdateCalls) <= 1
            /\ UpdateCalls # {} =>
                /\ Cardinality(found) = 1
                /\ \A i \in UpdateCalls : last.calls[i].id \in found
            /\ Cardinality(found) = 1 => UpdateCalls # {}
            /\ Cardinality(found) = 0 =>
                /\ last.result = Returned(None)
                /\ UpdateCalls = {}
                /\ last.calls[Len(last.calls)] = ReportCall
                /\ store = last.before
            /\ \A id \in DOMAIN store \ found : store[id] = last.before[id]
            /\ \A id \in found \cap last.args.gone :
                /\ store[id] = NoDoc
                /\ last.result.kind = "raised"
                /\ last.args.fault = 0 =>
                       last.result = Raised("NotFoundError", 2)
            /\ \A id \in found \ last.args.gone :
                /\ store[id].index = last.before[id].index
                /\ store[id].doc_type = last.before[id].doc_type
                /\ \A f \in DOMAIN last.before[id].source \ {field} :
                       /\ f \in DOMAIN store[id].source
                       /\ store[id].source[f] = last.before[id].source[f]
            /\ (/\ Cardinality(found) = 1
                /\ last.args.fault = 0
                /\ last.args.gone = {}) =>
                /\ last.result = Returned(None)
                /\ \A id \in found :
                       /\ field \in DOMAIN store[id].source
                       /\ store[id].source[field] =
                              (IF field = "status"
                               THEN (IF last.op = "mark_aip_stored"
                                     THEN "UPLOADED" ELSE "DEL_REQ")
                               ELSE TRUE)

\* a transfer document was marked, next to a document left alone
MarkBacklogDeletionRequestedPatched ==
    /\ last.op = "mark_backlog_deletion_requested"
    /\ last.result = Returned(None)
    /\ CountDocs(store) = 2
    /\ \E id \in DOMAIN store :
          /\ Present(last.before, id)
          /\ last.before[id].doc_type = "transfer"
          /\ last.before[id].source["pending_deletion"] = FALSE
          /\ store[id].source["pending_deletion"] = TRUE

-----------------------------------------------------------------------------
(* Properties of the write protocol across the layers.                     *)

\* the operations of the query/mutation layer that change documents
UnprotectedMutations ==
    {"set_file_tags", "remove_backlog_transfer", "delete_aip",
     "delete_aip_files", "remove_backlog_transfer_files",
     "remove_sip_transfer_files"} \cup MarkOperations

\* the operations of the higher layers that change documents, the
\* builders apart: a builder waits for the cluster and then writes with
\* _try_to_index, one step after the other (RunGate, RunWrite)
HigherLayerMutations == UnprotectedMutations

\* the last `n` attempts of a trace are failed store mutations, each
\* followed by a delay
EndsWithFailedAttempts(calls, n) ==
    /\ Len(calls) >= 2 * n
    /\ \A k \in 1..n :
          /\ calls[Len(calls) - 2 * k + 1].call \in MutationCalls
          /\ calls[Len(calls) - 2 * k + 2].call = "sleep"

\* C3 (as claimed): every store mutation a higher-layer operation issues
\* is preceded by a health check of that operation, and an operation
\* raises the failure of a store mutation only after the configured number
\* of attempts, each followed by a delay.
ResilientProtocolOnEveryMutation ==
    last.op \in HigherLayerMutations =>
        /\ \A i \in DOMAIN last.calls :
              last.calls[i].call \in MutationCalls =>
                  \E j \in 1..(i - 1) : last.calls[j].call = "health"
        /\ (/\ last.result.kind = "raised"
            /\ last.result.exc = "TransportError"
            /\ last.calls[Len(last.calls)].call # "search") =>
                EndsWithFailedAttempts(last.calls, DefaultMaxTries)

-----------------------------------------------------------------------------
(* The builders.                                                           *)

\* the path, or for an AIP the path or the manifest path, of a run is
\* missing
PathMissing(run) ==
    IF run.builder = "aip"
    THEN ~Exists(run.path) \/ ~Exists(run.mets_path)
    ELSE ~Exists(run.path)

\* a write of the run failed after all its attempts
WriteFailed(run) ==
    run.result.kind = "raised" /\ run.result.exc = "TransportError"

\* C11 (as claimed): index_aip_and_files with a missing package path or
\* manifest path, and index_transfer_and_files with a missing transfer
\* path, return 1 after reporting the error, without any health check or
\* write; a run that passes the precondition and whose writes all succeed
\* returns 0.
BuilderPreconditionAndReturnValue ==
    \A i \in DOMAIN runs :
        runs[i].pc = "done" =>
            /\ PathMissing(runs[i]) =>
                  /\ runs[i].result = Returned(1)
                  /\ runs[i].calls = <<ReportCall>>
                  /\ runs[i].gated = 0
                  /\ runs[i].wrote = <<>>
            /\ (~PathMissing(runs[i]) /\ ~WriteFailed(runs[i])) =>
                  runs[i].result = Returned(0)

-----------------------------------------------------------------------------
(* The index bootstrap.                                                    *)

\* the indexes the last operation issued a create call for
CreatesIssued == {last.calls[i].index : i \in {j \in DOMAIN last.calls : last.calls[j].call = "create"}}

\* C12 (as claimed): create_indexes_if_needed issues a create call for an
\* index if and only if that index does not exist; after it returns all
\* four indexes exist, every index that existed keeps its mapping, and an
\* 'already exists' conflict is ignored.
CreateIssuedIffIndexMissing ==
    last.op = "create_indexes_if_needed" =>
        /\ last.result.kind = "returned"
        /\ \A index \in INDICES :
              /\ index \in CreatesIssued <=> last.args.indices[index] = None
              /\ indices[index] # None
              /\ last.args.indices[index] # None =>
                    indices[index] = last.args.indices[index]

\* C12 (amended): create_indexes_if_needed issues no create call when all
\* four indexes exist, and one create call for each of the four, in the
\* order of INDICES, when at least one is missing; the store answers 400
\* for those that exist, by a racing creator too, and the answer is
\* ignored.  After it returns all four exist, every index that existed
\* keeps its mapping, and a call made then issues no create call.
CreateIssuedForAllIffAnyMissing ==
    last.op = "create_indexes_if_needed" =>
        /\ last.result.kind = "returned"
        /\ last.calls[1] = ExistsCall
        /\ IF \A index \in INDICES : last.args.indices[index] # None
           THEN Len(last.calls) = 1
           ELSE /\ Len(last.calls) = 5
                /\ <<last.calls[2].index, last.calls[3].index,
                     last.calls[4].index, last.calls[5].index>>
                      = <<"aips", "aipfiles", "transfers", "transferfiles">>
                /\ \A i \in 2..5 :
                      /\ last.calls[i].call = "create"
                      /\ last.calls[i].status = 200 <=>
                            /\ last.args.indices[last.calls[i].index] = None
                            /\ last.calls[i].index \notin last.args.racing
                      /\ last.calls[i].status = 200 =>
                            indices[last.calls[i].index] = "static"
        /\ \A index \in INDICES :
              /\ indices[index] # None
              /\ last.args.indices[index] # None =>
                    indices[index] = last.args.indices[index]
        /\ CreateIndexesIfNeeded(indices, INDICES).calls = <<ExistsCall>>

\* one index existed, another was created by a racing process after the
\* exists call, and the create calls for both were answered 400
CreateAnswered400Twice ==
    /\ last.op = "create_indexes_if_needed"
    /\ last.args.indices["aips"] = "previous"
    /\ last.args.indices["transfers"] = None
    /\ "transfers" \in last.args.racing
    /\ last.result.kind = "returned"
    /\ Len(last.calls) = 5
    /\ last.calls[2] = CreateCall("aips", 400)
    /\ last.calls[4] = CreateCall("transfers", 400)
    /\ indices["aips"] = "previous"
    /\ indices["transfers"] = "racing"

-----------------------------------------------------------------------------
(* Deletion by identifier.                                                 *)

DeleteOperations == {"remove_backlog_transfer", "delete_aip", "delete_aip_files"}

\* the index a deletion by identifier targets and the field it queries
DeleteIndex(op) ==
    IF op = "remove_backlog_transfer" THEN "transfers"
    ELSE IF op = "delete_aip" THEN "aips" ELSE "aipfiles"

DeleteField(op) == IF op = "delete_aip_files" THEN "AIPUUID" ELSE "uuid"

\* the document `id` of the store `st` is in the index and holds the value
\* in the field
Targeted(st, id, index, field, value) ==
    /\ st[id].index = index
    /\ field \in DOMAIN st[id].source
    /\ st[id].source[field] = value

\* C13: delete_aip, delete_aip_files and remove_backlog_transfer issue a
\* single delete-by-query and no lookup; after it returns no document of
\* the targeted index whose identifier field equals the value remains,
\* however many matched (none is no error), and every other document is
\* unchanged.
DeleteByIdentifierRemovesAllMatches ==
    last.op \in DeleteOperations =>
        /\ last.calls = <<DeleteByQueryCall(DeleteIndex(last.op),
                                            DeleteField(last.op),
                                            last.args.uuid)>>
        /\ last.args.fault = 0 => last.result.kind = "returned"
        /\ last.result.kind = "raised" => store = last.before
        /\ last.result.kind = "returned" =>
              \A id \in DOMAIN store :
                  IF Targeted(last.before, id, DeleteIndex(last.op),
                              DeleteField(last.op), last.args.uuid)
                  THEN store[id] = NoDoc
                  ELSE store[id] = last.before[id]

\* delete_aip_files removed the two file documents of an AIP and left the
\* document of the AIP
DeleteAipFilesRemovedTwo ==
    /\ last.op = "delete_aip_files"
    /\ last.result.kind = "returned"
    /\ Cardinality({id \in DOMAIN store :
            Targeted(last.before, id, "aipfiles", "AIPUUID", last.args.uuid)}) = 2
    /\ CountDocs(store) = 1
    /\ \E id \in DOMAIN store : store[id].index = "aips"

-----------------------------------------------------------------------------
(* get_transfer_file_info.                                                 *)

\* the positions of the hits of the last operation that hold the queried
\* value in the queried field
ExactPositions ==
    {i \in DOMAIN last.args.hits :
        last.before[last.args.hits[i]].source[last.args.field] = last.args.value}

\* C14: when the store returns more than one hit to get_transfer_file_info,
\* only the hits whose field equals the queried value are considered: the
\* only one is returned; of several the first in the order of the store is
\* returned, with a warning and no error; when there is none an
\* ElasticsearchError is raised.
TransferFileInfoTakesFirstExactMatch ==
    (/\ last.op = "get_transfer_file_info"
     /\ last.args.fault = 0
     /\ Len(last.args.hits) > 1) =>
        /\ store = last.before
        /\ IF ExactPositions = {}
           THEN /\ last.result.kind = "raised"
                /\ last.result.exc = "ElasticsearchError"
           ELSE /\ last.result.kind = "returned"
                /\ last.result.value
                      = last.before[last.args.hits[SetMin(ExactPositions)]].source
                /\ CountCalls(last.calls, "warning")
                      = IF Cardinality(ExactPositions) > 1 THEN 1 ELSE 0

\* the store ranked a document with another value first and the exact match
\* behind it was returned
TransferFileInfoSkippedNearMatch ==
    /\ last.op = "get_transfer_file_info"
    /\ last.args.fault = 0
    /\ Len(last.args.hits) = 2
    /\ ExactPositions = {2}
    /\ last.result.kind = "returned"
    /\ last.result.value = last.before[last.args.hits[2]].source
    /\ last.result.value # last.before[last.args.hits[1]].source

-----------------------------------------------------------------------------
(* Runs of the transfer builder in one process.                            *)

\* the elements of a sequence
Range(seq) == {seq[k] : k \in DOMAIN seq}

\* the relative paths of the documents of the files of a transfer,
\* whatever the order in which its directories are listed
OwnRelativePaths(uuid, path) ==
    {IndexData(filepath, path, uuid).relative_path :
        filepath \in {p \in UNION {Range(ListFilesInDir(path, <<>>, listing)) :
                                      listing \in Listings(path)} :
                         Indexed(p)}}

\* the documents of a store and how many times it holds each
Contents(st) ==
    LET docs == {st[id] : id \in {x \in DOMAIN st : Present(st, x)}}
    IN  [d \in docs |-> Cardinality({id \in DOMAIN st : st[id] = d})]

\* the stores after the run i and then the run j, one after the other, in
\* a process that has indexed nothing before, for every order in which
\* the directories may be listed
Sequential(i, j) ==
    LET green == Answers(<<>>, "green")
        ok == Answers(<<>>, "ok")
        first(li) == IndexTransferAndFiles([id \in 1..4 |-> NoDoc], <<>>,
                                           RunArgs(i).uuid, RunArgs(i).path,
                                           li, green, ok)
        second(li, lj) == IndexTransferAndFiles(
                              first(li).store, first(li).filepaths,
                              RunArgs(j).uuid, RunArgs(j).path, lj, green, ok)
    IN  {second(li, lj).store : li \in Listings(RunArgs(i).path),
                                lj \in Listings(RunArgs(j).path)}

\* C15: two indexing runs for different identifiers, interleaved at their
\* store and filesystem calls in one process, cannot collide: every
\* document a run writes carries the identifier of the run and describes an
\* entry of the path of the run, and the final store is that of the two
\* runs executed one after the other.
InterleavedRunsDoNotCollide ==
    /\ \A id \in DOMAIN store :
          (Present(store, id) /\ store[id].index = "transferfiles") =>
              \E i \in RunIds :
                  /\ store[id].source.sipuuid = RunArgs(i).uuid
                  /\ store[id].source.relative_path
                        \in OwnRelativePaths(RunArgs(i).uuid, RunArgs(i).path)
    /\ (\A i \in RunIds : /\ runs[i].pc = "done"
                           /\ runs[i].result = Returned(0)) =>
          Contents(store) \in {Contents(st) :
                                  st \in Sequential(1, 2) \cup Sequential(2, 1)}

\* the documents a run has written to an index, in order
WroteTo(run, index) ==
    LET there(d) == d.index = index
    IN  SelectSeq(run.wrote, there)

\* C16: indexing mutates no process-wide state: whatever paths the earlier
\* calls of the process indexed, the transfer-file documents a call of
\* index_transfer_and_files writes for the path P are exactly one for each
\* regular file under P that is not excluded, each visited once, and none
\* for a file outside P.  Stated of a call that returned 0 and that was
\* made after every other call of the process had returned (earlier).
RunIndexesOwnFilesOnce ==
    \A i \in DOMAIN runs :
        (/\ runs[i].builder = "transfer"
         /\ runs[i].pc = "done"
         /\ runs[i].result = Returned(0)
         /\ runs[i].earlier = DOMAIN runs \ {i}) =>
            LET written == WroteTo(runs[i], "transferfiles")
                own == OwnRelativePaths(runs[i].uuid, runs[i].path)
            IN  /\ {written[k].data.relative_path : k \in DOMAIN written}
                      = own
                /\ Len(written) = Cardinality(own)
                /\ \A k \in DOMAIN written :
                      written[k].data.sipuuid = runs[i].uuid

-----------------------------------------------------------------------------
(* The AIP builder.                                                        *)

\* the amdSec the document of a file entry is to hold
OwnAmdSec(file_) ==
    IF file_.ADMID = None THEN EmptyDict
    ELSE Normalize(AmdSec(file_.ADMID).parsed)

\* C17: the administrative metadata of a file does not leak to another in
\* _index_aip_files: for the entries of the manifest in any order, the
\* document written for an entry with ADMID holds the normalized amdSec the
\* entry references, and the document written for an entry without ADMID
\* holds an empty amdSec, never that of an entry processed before.  The
\* k-th AIP-file document a run writes is the document of the k-th entry;
\* the document that is built and waits to be written is that of the
\* entry the loop is at.
AmdSecScopedToItsFile ==
    \A i \in DOMAIN runs :
        runs[i].builder = "aip" =>
            LET run == runs[i]
                written == WroteTo(run, "aipfiles")
            IN  /\ Len(written) <= Len(run.files)
                /\ (run.pc = "done" /\ run.result = Returned(0)) =>
                      Len(written) = Len(run.files)
                /\ \A k \in DOMAIN written :
                      /\ written[k].data.METS.amdSec
                            = OwnAmdSec(run.files[k])
                      /\ written[k].data.AIPUUID = run.uuid
                /\ run.doc.index = "aipfiles" =>
                      /\ Len(written) = run.pos - 1
                      /\ run.doc.data.METS.amdSec
                            = OwnAmdSec(run.files[run.pos])

\* an entry with ADMID was indexed and then an entry without: the document
\* of the second holds an empty amdSec
AmdSecEmptyAfterFileWithAmdSec ==
    \E i \in DOMAIN runs :
        /\ runs[i].builder = "aip"
        /\ runs[i].pc = "done"
        /\ runs[i].result = Returned(0)
        /\ Len(runs[i].files) = 2
        /\ runs[i].files[1].ADMID = "amdSec_2"
        /\ runs[i].files[2].ADMID = None
        /\ LET written == WroteTo(runs[i], "aipfiles")
           IN  /\ Len(written) = 2
               /\ written[1].data.METS.amdSec # EmptyDict
               /\ written[2].data.METS.amdSec = EmptyDict

-----------------------------------------------------------------------------
(* The builders and the query/mutation layer.                              *)

\* C18: the documents an indexing run writes are reachable by the mutation
\* layer: once a builder has written the one document of an AIP or of a
\* transfer, the status updates for its identifier patch that document, and
\* get_file_tags and set_file_tags for a file identifier of the run resolve
\* to the transfer-file document written for it (no other caller deleting
\* a document in between).
BuilderDocumentsReachable ==
    /\ (/\ last.op \in MarkOperations
        /\ last.args.fault = 0
        /\ last.args.gone = {}) =>
          LET index == IF last.op = "mark_backlog_deletion_requested"
                       THEN "transfers" ELSE "aips"
              written == TermMatches(last.before, index, DOC_TYPE, "uuid",
                                     last.args.uuid)
          IN  Cardinality(written) = 1 =>
                  \A id \in written :
                      /\ \E i \in UpdateCalls : last.calls[i].id = id
                      /\ MarkField(last.op) \in DOMAIN store[id].source
    /\ (/\ last.op \in {"get_file_tags", "set_file_tags"}
        /\ last.args.fault = 0
        /\ last.op = "set_file_tags" => last.args.gone = {}) =>
          LET written == TermMatches(last.before, "transferfiles", DOC_TYPE,
                                     "fileuuid", last.args.uuid)
          IN  Cardinality(written) = 1 =>
                  /\ last.result.kind = "returned"
                  /\ last.op = "set_file_tags" =>
                        \A id \in written :
                            store[id].source.tags = last.args.tags

-----------------------------------------------------------------------------
(* Deletion of the files of a transfer.                                    *)

\* the transfer-file documents of a store whose transfer is `transfer`
FilesOfTransfer(st, transfer) ==
    {id \in DOMAIN st :
        /\ Present(st, id)
        /\ st[id].doc_type = "transferfile"
        /\ st[id].source["sipuuid"] = transfer}

\* C19: remove_backlog_transfer_files and remove_sip_transfer_files delete
\* the whole result set or nothing: once the operation has returned or
\* failed, no other caller having deleted a document meanwhile, either
\* every transfer-file document matching the transfer identifier has been
\* removed or none has.
RemoveTransferFilesAllOrNone ==
    (/\ last.op \in {"remove_backlog_transfer_files",
                     "remove_sip_transfer_files"}
     /\ \A k \in DOMAIN last.args.gone : last.args.gone[k] = {}) =>
        \A transfer \in Identifiers :
            LET matching == FilesOfTransfer(last.before, transfer)
            IN  \/ \A id \in matching : store[id] = NoDoc
                \/ \A id \in matching : store[id] = last.before[id]

-----------------------------------------------------------------------------
(* The renaming pass on an empty list.                                     *)

\* C20: the renaming pass, and hence normalize, returns a result for every
\* nested mapping, including one in which a key holds an empty list: the
\* empty list is kept under a list key and the pass does not fail on it.
RenamePassKeepsEmptyList ==
    nmode.exp = "twice" =>
        /\ ~Raises(nout)
        /\ \A key \in DOMAIN nin.items :
              nin.items[key] = List(<<>>) =>
                  \E renamed \in DOMAIN nout.items :
                      nout.items[renamed] = List(<<>>)

-----------------------------------------------------------------------------
(* The transfer document of a run.                                         *)

\* the entries of the list the for loop of a run has passed that are files
\* and are not excluded
IndexedEntries(run) ==
    {k \in 1..(run.pos - 1) : Indexed(filepaths[k])}

\* C21: in a successful run of index_transfer_and_files the transfer
\* document is written after all transfer-file documents of the run and its
\* file_count is the number of transfer-file documents the run wrote; an
\* entry whose basename is excluded (processingMCP.xml) is neither written
\* nor counted, and a file whose write failed after all retries is never
\* counted.
TransferDocumentCountsWrittenFiles ==
    \A i \in DOMAIN runs :
        runs[i].builder = "transfer" =>
            LET run == runs[i]
                files == WroteTo(run, "transferfiles")
                transfers == WroteTo(run, "transfers")
            IN  /\ \A k \in DOMAIN files :
                      Basename(files[k].data.relative_path) \notin IgnoreFiles
                /\ run.files_indexed = Len(files)
                /\ run.result.kind = "raised" => transfers = <<>>
                /\ transfers # <<>> =>
                      /\ Len(transfers) = 1
                      /\ run.wrote = Append(files, transfers[1])
                /\ (run.pc = "done" /\ run.result = Returned(0)) =>
                      /\ Len(transfers) = 1
                      /\ transfers[1].data.file_count = Len(files)
                      /\ transfers[1].data.file_count
                            = Cardinality(IndexedEntries(run))

\* a run whose list held a file and an entry that is no file wrote the
\* document of the file and then, at the second attempt, the transfer
\* document with file_count 1
TransferDocumentCountedOneFile ==
    \E i \in DOMAIN runs :
        /\ runs[i].builder = "transfer"
        /\ runs[i].pc = "done"
        /\ runs[i].result = Returned(0)
        /\ \E k \in 1..(runs[i].pos - 1) : ~Indexed(filepaths[k])
        /\ Len(WroteTo(runs[i], "transferfiles")) = 1
        /\ runs[i].wrote[2].index = "transfers"
        /\ runs[i].wrote[2].data.file_count = 1
        /\ runs[i].calls = <<IndexCall("transfers", DOC_TYPE), SleepCall,
                             IndexCall("transfers", DOC_TYPE)>>

-----------------------------------------------------------------------------
(* get_transfer_file_info: what it returns.                                *)

\* C22: whenever get_transfer_file_info(field, value) returns a document
\* that is not empty, the value of the queried field of the document is
\* the queried value, whatever the number of hits of the store, one or
\* several; a document the store ranked as a near match is never returned.
TransferFileInfoReturnsExactMatchOnly ==
    (/\ last.op = "get_transfer_file_info"
     /\ last.result.kind = "returned"
     /\ Len(last.args.hits) > 0) =>
        last.result.value[last.args.field] = last.args.value

====
